---- MODULE Spec2Model ----
(***************************************************************************)
(* Model of the product batch processor (product_batch_processor/main.py  *)
(* and the modules it drives): one ingestion task per URL goes through    *)
(* crawling, extraction, image processing, upload, embedding and the      *)
(* document write; process_batch_urls runs the tasks under a semaphore    *)
(* and aggregates their results after asyncio.gather.                     *)
(*                                                                         *)
(* A coroutine runs atomically between two awaits, so each action below   *)
(* is the completion of one awaited call together with the orchestrator   *)
(* code that follows it up to the next await.                             *)
(***************************************************************************)
EXTENDS Integers, Sequences, FiniteSets, TLC

(* ---- bounds of the model ---- *)
MaxUrls == 2
MaxWorkers == 2
MaxImages == 2
MaxScripts == 1
MaxImgTags == 2
MaxIngests == 2
MaxLists == 2
MaxScoped == 2

(* ---- program constants ---- *)
MAX_RETRIES == 3
MAX_WORKERS == 5
REQUEST_DELAY == 1
RETRY_BACKOFF_FACTOR == 2
IMAGE_LIMIT == 10
DISCOVERY_LIMIT == 10
METADATA_LIMIT == 5
STRUCTURED_LIMIT == 3
TEXT_EMBEDDING_DIMENSION == 1536
IMAGE_EMBEDDING_DIMENSION == 1408
MAX_IMAGE_SIZE == 5242880
RRF_K == 60

VARIABLES
    mode,            \* args.mode: "single" or "batch"
    urls,            \* the input URLs, each with the page the web serves for it
    max_workers,     \* worker limit of process_batch_urls
    semaphore,       \* value of the batch asyncio.Semaphore
    pc,              \* position of each task's coroutine
    result,          \* process_single_url's result dict of each task
    product_info,    \* local of process_single_url
    processed_images,\* local of process_single_url
    embeddings,      \* local of process_single_url
    image_service_called, \* whether the task called the image embedding service
    embedded_image_path, \* the local path the task passed to the image embedding service, 0 for none
    firestore,       \* the document store, by product id
    writes,          \* number of doc_ref.set calls made for each product id
    bpc,             \* position of process_batch_urls
    batch_result,    \* the report process_batch_urls returns
    crawl,           \* one WebCrawler and its crawl_url call, step by step
    extract,         \* one extract_product_info call: the model's answer
    discovery,       \* one _extract_images_from_html call, item by item
    imaging,         \* one process_images call, image by image
    textprep,        \* one _prepare_text_content call of the embedding generator
    store,           \* the document collection over several ingestions
    fusion,          \* one reciprocal_rank_fusion call, entry by entry
    scope            \* per task, the sessions and permits process_single_url holds

vars == <<mode, urls, max_workers, semaphore, pc, result, product_info,
          processed_images, embeddings, image_service_called, embedded_image_path, firestore,
          writes, bpc, batch_result, crawl, extract, discovery, imaging,
          textprep, store, fusion, scope>>

(* The orchestrator's variables. *)
pipevars == <<mode, urls, max_workers, semaphore, pc, result, product_info,
              processed_images, embeddings, image_service_called, embedded_image_path, firestore,
              writes, bpc, batch_result>>

(* The variables that follow one call of one function on its own. *)
studyvars == <<discovery, imaging, textprep, store, fusion, scope>>

None == "None"

Min(a, b) == IF a < b THEN a ELSE b

Tasks == 1..Len(urls)

(* The stage names of result["steps"], in the order process_single_url
   records them. *)
StageOrder == <<"crawling", "extraction", "image_processing", "gcs_upload",
                "embedding", "firestore_save">>

(* ---- data ---- *)
SeqsUpTo(S, n) == UNION {[1..k -> S] : k \in 0..n}

(* ProductImage.type as the extractor assigns it. *)
ImageTypes == {"main", "detail"}

(* An image dict as it travels through the pipeline.  local_path and
   public_url are 0 for the empty string, else the image's position. *)
NewImage(t) ==
    [type |-> t, processed |-> FALSE, local_path |-> 0,
     gcs_uploaded |-> FALSE, public_url |-> 0]

CandidateLists == SeqsUpTo({NewImage(t) : t \in ImageTypes}, MaxImages)

(* What the web serves for a URL: whether the URL has a scheme and a host,
   whether the page has product text, and its candidate images. *)
InvalidUrl == [valid |-> FALSE, text |-> FALSE, images |-> <<>>]

SinglePages ==
    {InvalidUrl} \cup [valid : {TRUE}, text : BOOLEAN, images : CandidateLists]

BatchPages ==
    {InvalidUrl, [valid |-> TRUE, text |-> TRUE, images |-> <<>>]}

NoError == [stage |-> None, detail |-> None]

NoEmbeddings == [text_embedding |-> 0, image_embedding |-> 0]

NoProductInfo == [text |-> FALSE, images |-> <<>>]

NoDoc ==
    [exists |-> FALSE, text_content |-> FALSE, image_path |-> 0,
     text_embedding |-> 0, image_embedding |-> 0]

(* result before process_single_url has been called for the task. *)
NoResult ==
    [kind |-> "none", url |-> 0, status |-> "pending", steps |-> <<>>,
     error |-> NoError,
     images |-> <<>>, embeddings_generated |-> [text |-> FALSE, image |-> FALSE]]

(* main.py 63-70: the result dict process_single_url starts from for the
   i-th input URL; "url" holds the position of that URL in the input. *)
NewResult(i) ==
    [kind |-> "dict", url |-> i, status |-> "processing", steps |-> <<>>,
     error |-> NoError,
     images |-> <<>>, embeddings_generated |-> [text |-> FALSE, image |-> FALSE]]

NoBatchResult ==
    [returned |-> FALSE, total_urls |-> 0, success_count |-> 0,
     failure_count |-> 0, success_rate |-> <<0, 1>>, results |-> <<>>]

(* ---- initial states ---- *)
InitSingle ==
    /\ mode = "single"
    /\ urls \in [1..1 -> SinglePages]
    /\ max_workers = 1
    /\ semaphore = 0
    /\ pc = [i \in 1..1 |-> "crawling"]
    /\ result = [i \in 1..1 |-> NewResult(i)]
    /\ bpc = "single"

InitBatch ==
    /\ mode = "batch"
    /\ urls \in SeqsUpTo(BatchPages, MaxUrls)
    /\ max_workers \in 1..MaxWorkers
    /\ semaphore = max_workers
    /\ pc = [i \in Tasks |-> "created"]
    /\ result = [i \in Tasks |-> NoResult]
    /\ bpc = "gather"

InitLocals ==
    /\ product_info = [i \in Tasks |-> NoProductInfo]
    /\ processed_images = [i \in Tasks |-> <<>>]
    /\ embeddings = [i \in Tasks |-> NoEmbeddings]
    /\ image_service_called = [i \in Tasks |-> FALSE]
    /\ embedded_image_path = [i \in Tasks |-> 0]
    /\ firestore = [i \in Tasks |-> NoDoc]
    /\ writes = [i \in Tasks |-> 0]
    /\ batch_result = NoBatchResult

(* No step-by-step call is being followed. *)
NoCrawl ==
    [pc |-> "idle", firecrawl_app |-> FALSE, semaphore |-> MAX_WORKERS,
     firecrawl_calls |-> 0, firecrawl_content |-> FALSE,
     requests |-> <<>>, waits |-> <<>>, html_content |-> FALSE,
     result |-> [status |-> None, html_content |-> FALSE, error |-> None]]

NoExtract ==
    [called |-> FALSE, ai_data |-> FALSE,
     response |-> [open |-> "none", body |-> "error", close |-> FALSE]]

(* No image discovery is being followed. *)
NoDiscovery == [pc |-> "idle", images |-> <<>>, k |-> 0, scripts |-> 0, tags |-> 0]

(* No process_images call is being followed. *)
NoImaging ==
    [pc |-> "idle", n |-> 0, index |-> 0, processed_images |-> <<>>,
     status |-> None,
     response |-> [status |-> 0, content_length |-> [kind |-> "absent", value |-> 0],
                   body_size |-> 0]]

(* No text preparation is being followed. *)
NoTextprep ==
    [pc |-> "idle",
     product_info |-> [name |-> "", description |-> "", category |-> "",
                       brand |-> "", attributes |-> <<>>, product_code |-> "",
                       price |-> None, currency |-> "KRW"],
     text_parts |-> <<>>, text_content |-> <<>>]

(* No ingestion is being followed. *)
NoStore == [pc |-> "idle", now |-> 0, docs |-> {}, history |-> <<>>]

(* No reciprocal_rank_fusion call is being followed. *)
NoFusion ==
    [pc |-> "idle", search_results |-> <<>>, k |-> 0, list |-> 1, rank |-> 0,
     fused_scores |-> <<>>, reranked_results |-> <<>>]

(* No task's sessions are being followed. *)
NoScope == <<>>

InitStudyIdle ==
    /\ discovery = NoDiscovery
    /\ imaging = NoImaging
    /\ textprep = NoTextprep
    /\ store = NoStore
    /\ fusion = NoFusion
    /\ scope = NoScope

InitIdle ==
    /\ crawl = NoCrawl
    /\ extract = NoExtract
    /\ InitStudyIdle

Init == (InitSingle \/ InitBatch) /\ InitLocals /\ InitIdle

(* ---- process_with_semaphore ---- *)
InFlight == {"sleeping", "crawling", "extracting", "image_processing",
             "uploading", "embedding", "persisting"}

(* Mutant: the task enters without waiting for a permit. *)
Acquire_NoWait(i) ==
    /\ mode = "batch"
    /\ pc[i] = "created"
    /\ semaphore' = semaphore - 1
    /\ pc' = [pc EXCEPT ![i] = "sleeping"]
    /\ UNCHANGED <<crawl, extract, studyvars, mode, urls, max_workers, result, product_info,
                   processed_images, embeddings, image_service_called, embedded_image_path,
                   firestore, writes, bpc, batch_result>>

(* main.py 240: async with semaphore (asyncio.Semaphore.acquire). *)
Acquire(i) ==
    /\ mode = "batch"
    /\ pc[i] = "created"
    /\ semaphore > 0
    /\ semaphore' = semaphore - 1
    /\ pc' = [pc EXCEPT ![i] = "sleeping"]
    /\ UNCHANGED <<crawl, extract, studyvars, mode, urls, max_workers, result, product_info,
                   processed_images, embeddings, image_service_called, embedded_image_path,
                   firestore, writes, bpc, batch_result>>

(* main.py 242-243 and 50-70: the delay elapses and process_single_url
   starts with a fresh result dict. *)
StartTask(i) ==
    /\ pc[i] = "sleeping"
    /\ pc' = [pc EXCEPT ![i] = "crawling"]
    /\ result' = [result EXCEPT ![i] = NewResult(i)]
    /\ UNCHANGED <<crawl, extract, studyvars, mode, urls, max_workers, semaphore, product_info,
                   processed_images, embeddings, image_service_called, embedded_image_path,
                   firestore, writes, bpc, batch_result>>

(* Mutant: the semaphore is not given back when the task ends. *)
Return_NoRelease(i, r) ==
    /\ pc' = [pc EXCEPT ![i] = "done"]
    /\ result' = [result EXCEPT ![i] = r]
    /\ product_info' = [product_info EXCEPT ![i] = NoProductInfo]
    /\ processed_images' = [processed_images EXCEPT ![i] = <<>>]
    /\ embeddings' = [embeddings EXCEPT ![i] = NoEmbeddings]
    /\ semaphore' = semaphore

(* Leaving process_single_url with result r: the locals go out of scope and,
   in a batch, the async with of main.py 240 releases the semaphore. *)
Return(i, r) ==
    /\ pc' = [pc EXCEPT ![i] = "done"]
    /\ result' = [result EXCEPT ![i] = r]
    /\ product_info' = [product_info EXCEPT ![i] = NoProductInfo]
    /\ processed_images' = [processed_images EXCEPT ![i] = <<>>]
    /\ embeddings' = [embeddings EXCEPT ![i] = NoEmbeddings]
    /\ semaphore' = IF mode = "batch" THEN semaphore + 1 ELSE semaphore

(* Mutant: the handler leaves the result as it was. *)
ExceptionResult_Swallowed(r, e) == r

(* main.py 200-218: except Exception. *)
ExceptionResult(r, e) ==
    [r EXCEPT !.status = "failed", !.error = [stage |-> "exception", detail |-> e]]

(* main.py 83-85, 99-101, 165-167: a critical stage failed. *)
CriticalFailure(r, stage, e) ==
    [r EXCEPT !.status = "failed", !.error = [stage |-> stage, detail |-> e]]

(* main.py 80, 95, 112, 151, 161: the duration the stage reported;
   main.py 130: the upload step is given the duration 0. *)
StepDuration(name) == IF name = "gcs_upload" THEN "0" ELSE "reported"

(* main.py 76-80, 92-96, 109-113, 127-131, 148-152, 158-162: the entry of
   result["steps"] for a stage. *)
AddStep(r, name, status) ==
    [r EXCEPT !.steps = Append(@, [name |-> name, status |-> status,
                                   duration_ms |-> StepDuration(name)])]

(* Mutant: the orchestrator never looks at a stage's status. *)
StageFailed_Never(stage_result) == FALSE

(* main.py 82, 98: if stage_result["status"] != "success". *)
StageFailed(stage_result) == stage_result.status # "success"

(* ---- stage 1: WebCrawler.crawl_url ---- *)
(* Mutant: every URL passes the validation. *)
_validate_url_Always(url) == TRUE

(* crawler.py 90-96: the URL has a scheme and a host. *)
_validate_url(url) == url.valid

HttpOutcomes == {"200", "non200", "timeout", "client_error"}

(* crawler.py 98-164: the responses of the successive GET attempts, from
   attempt number attempt on; the content of the first 200, else None
   after MAX_RETRIES attempts. *)
RECURSIVE FetchFrom(_, _)
FetchFrom(responses, attempt) ==
    IF attempt > MAX_RETRIES THEN [content |-> FALSE, attempts |-> MAX_RETRIES]
    ELSE IF responses[attempt] = "200"
         THEN [content |-> TRUE, attempts |-> attempt]
         ELSE FetchFrom(responses, attempt + 1)

_fetch_with_retry(responses) == FetchFrom(responses, 1)

(* crawler.py 311-397: the dict crawl_url returns for a valid URL.
   firecrawl_app: whether this crawler has a Firecrawl client;
   firecrawl_ok: whether its scrape returns content; saved: whether
   _save_html writes the file. *)
crawl_url(firecrawl_app, firecrawl_ok, responses, saved) ==
    LET fromFirecrawl == firecrawl_app /\ firecrawl_ok
        html_content == IF fromFirecrawl THEN TRUE
                        ELSE _fetch_with_retry(responses).content
    IN  IF ~html_content
        THEN [status |-> "failed", html_content |-> FALSE,
              error |-> "Failed to fetch HTML content"]
        ELSE IF ~saved
        THEN [status |-> "failed", html_content |-> FALSE,
              error |-> "Failed to save HTML"]
        ELSE [status |-> "success", html_content |-> TRUE, error |-> None]

(* main.py 73-88 with crawler.py 311-397.  A fresh WebCrawler brings its own
   Semaphore(MAX_WORKERS), so its acquire finds MAX_WORKERS permits. *)
Crawling(i) ==
    /\ pc[i] = "crawling"
    /\ MAX_WORKERS > 0
    /\ IF ~_validate_url(urls[i])
       THEN /\ Return(i, ExceptionResult(result[i], "Invalid URL format"))
            /\ UNCHANGED <<image_service_called, embedded_image_path, firestore, writes>>
       ELSE \E firecrawl_app \in BOOLEAN, firecrawl_ok \in BOOLEAN,
               responses \in [1..MAX_RETRIES -> HttpOutcomes], saved \in BOOLEAN :
               LET crawl_result == crawl_url(firecrawl_app, firecrawl_ok, responses, saved)
                   r == AddStep(result[i], "crawling", crawl_result.status)
               IN  IF StageFailed(crawl_result)
                   THEN /\ Return(i, CriticalFailure(r, "crawling", crawl_result.error))
                        /\ UNCHANGED <<image_service_called, embedded_image_path, firestore, writes>>
                   ELSE /\ pc' = [pc EXCEPT ![i] = "extracting"]
                        /\ result' = [result EXCEPT ![i] = r]
                        /\ UNCHANGED <<semaphore, product_info, processed_images,
                                       embeddings, image_service_called, embedded_image_path,
                                       firestore, writes>>
    /\ UNCHANGED <<crawl, extract, studyvars, mode, urls, max_workers, bpc, batch_result>>

(* ---- stage 2: ProductExtractor.extract_product_info ---- *)
(* extractor.py 500-590.  ai_ok: the model's answer parses (else ai_data is
   {}); images_ok: _extract_images_from_html succeeds (else []); json_saved:
   _save_json writes the file (else the stage fails). *)
extract_product_info(page, ai_ok, images_ok, json_saved) ==
    IF ~json_saved
    THEN [status |-> "failed", product_info |-> NoProductInfo,
          error |-> "Failed to save JSON"]
    ELSE [status |-> "success",
          product_info |-> [text |-> ai_ok /\ page.text,
                            images |-> IF images_ok THEN page.images ELSE <<>>],
          error |-> None]

(* Mutant: the upload is started right after the extraction. *)
Extracting_SkipImages(i) ==
    /\ pc[i] = "extracting"
    /\ \E ai_ok \in BOOLEAN, images_ok \in BOOLEAN, json_saved \in BOOLEAN :
          LET extraction_result == extract_product_info(urls[i], ai_ok, images_ok, json_saved)
              r == AddStep(result[i], "extraction", extraction_result.status)
          IN  IF StageFailed(extraction_result)
              THEN /\ Return(i, CriticalFailure(r, "extraction", extraction_result.error))
              ELSE /\ pc' = [pc EXCEPT ![i] = "uploading"]
                   /\ result' = [result EXCEPT ![i] = r]
                   /\ product_info' = [product_info EXCEPT ![i] = extraction_result.product_info]
                   /\ UNCHANGED <<semaphore, processed_images, embeddings>>
    /\ UNCHANGED <<crawl, extract, studyvars, mode, urls, max_workers, image_service_called, embedded_image_path, firestore,
                   writes, bpc, batch_result>>

(* main.py 90-104. *)
Extracting(i) ==
    /\ pc[i] = "extracting"
    /\ \E ai_ok \in BOOLEAN, images_ok \in BOOLEAN, json_saved \in BOOLEAN :
          LET extraction_result == extract_product_info(urls[i], ai_ok, images_ok, json_saved)
              r == AddStep(result[i], "extraction", extraction_result.status)
          IN  IF StageFailed(extraction_result)
              THEN /\ Return(i, CriticalFailure(r, "extraction", extraction_result.error))
              ELSE /\ pc' = [pc EXCEPT ![i] = "image_processing"]
                   /\ result' = [result EXCEPT ![i] = r]
                   /\ product_info' = [product_info EXCEPT ![i] = extraction_result.product_info]
                   /\ UNCHANGED <<semaphore, processed_images, embeddings>>
    /\ UNCHANGED <<crawl, extract, studyvars, mode, urls, max_workers, image_service_called, embedded_image_path, firestore,
                   writes, bpc, batch_result>>

(* ---- stage 3: ImageProcessor.process_images ---- *)
(* image_processor.py 331-366: the entry for image number k of the list;
   ok: its download and its processing both succeed. *)
ProcessedImage(image_info, k, ok) ==
    IF ok THEN [image_info EXCEPT !.processed = TRUE, !.local_path = k]
    ELSE [image_info EXCEPT !.processed = FALSE]

(* image_processor.py 307-407.  oks: per image, whether it is downloaded and
   processed; raises: an exception escapes the loop (possible only while an
   image is being handled). *)
process_images(images, oks, raises) ==
    IF images = <<>>
    THEN [status |-> "success", processed_images |-> <<>>]
    ELSE IF raises
    THEN [status |-> "failed", processed_images |-> <<>>]
    ELSE [status |-> "success",
          processed_images |->
              [k \in 1..Min(Len(images), IMAGE_LIMIT) |->
                  ProcessedImage(images[k], k, oks[k])]]

(* Mutant: a failed image stage ends the task like a critical stage. *)
ImageProcessing_Critical(i) ==
    /\ pc[i] = "image_processing"
    /\ MAX_WORKERS > 0
    /\ \E oks \in [1..Len(product_info[i].images) -> BOOLEAN], raises \in BOOLEAN :
          LET image_result == process_images(product_info[i].images, oks, raises)
              r == AddStep(result[i], "image_processing", image_result.status)
          IN  IF image_result.status # "success"
              THEN Return(i, CriticalFailure(r, "image_processing", "image error"))
              ELSE /\ result' = [result EXCEPT ![i] = r]
                   /\ processed_images' = [processed_images EXCEPT ![i] =
                         image_result.processed_images]
                   /\ pc' = [pc EXCEPT ![i] = "uploading"]
                   /\ UNCHANGED <<semaphore, product_info, embeddings>>
    /\ UNCHANGED <<crawl, extract, studyvars, mode, urls, max_workers, image_service_called, embedded_image_path, firestore,
                   writes, bpc, batch_result>>

(* main.py 106-123.  A fresh ImageProcessor brings its own
   Semaphore(MAX_WORKERS). *)
ImageProcessing(i) ==
    /\ pc[i] = "image_processing"
    /\ MAX_WORKERS > 0
    /\ \E oks \in [1..Len(product_info[i].images) -> BOOLEAN], raises \in BOOLEAN :
          LET image_result == process_images(product_info[i].images, oks, raises)
          IN  /\ result' = [result EXCEPT ![i] =
                               AddStep(@, "image_processing", image_result.status)]
              /\ processed_images' = [processed_images EXCEPT ![i] =
                    IF image_result.status # "success" THEN <<>>
                    ELSE image_result.processed_images]
    /\ pc' = [pc EXCEPT ![i] = "uploading"]
    /\ UNCHANGED <<crawl, extract, studyvars, mode, urls, max_workers, semaphore, product_info, embeddings,
                   image_service_called, embedded_image_path, firestore, writes, bpc, batch_result>>

(* ---- stage 4: CloudStorage.upload_images_to_gcs ---- *)
(* storage.py 194-233: the entry for one image; up: whether
   upload_image_to_gcs reports success for it. *)
UploadedImage(image_info, up) ==
    IF ~image_info.processed THEN [image_info EXCEPT !.gcs_uploaded = FALSE]
    ELSE IF image_info.local_path = 0 THEN [image_info EXCEPT !.gcs_uploaded = FALSE]
    ELSE IF up THEN [image_info EXCEPT !.gcs_uploaded = TRUE,
                                       !.public_url = image_info.local_path]
    ELSE [image_info EXCEPT !.gcs_uploaded = FALSE]

upload_images_to_gcs(images, ups) ==
    [k \in 1..Len(images) |-> UploadedImage(images[k], ups[k])]

(* Whether upload_images_to_gcs has an image to send to the bucket: only then
   does its loop reach calls that can raise (storage.py 213-233, 249-256). *)
HasUploadWork(images) ==
    \E k \in 1..Len(images) : images[k].processed /\ images[k].local_path # 0

(* main.py 125-134.  raises: upload_images_to_gcs re-raises (storage.py 256);
   nothing in process_single_url catches it before the outer handler. *)
Uploading(i) ==
    /\ pc[i] = "uploading"
    /\ \E ups \in [1..Len(processed_images[i]) -> BOOLEAN], raises \in BOOLEAN :
          IF raises /\ HasUploadWork(processed_images[i])
          THEN Return(i, ExceptionResult(result[i], "gcs_upload error"))
          ELSE LET uploaded_images == upload_images_to_gcs(processed_images[i], ups)
               IN  /\ result' = [result EXCEPT ![i] =
                         AddStep(@, "gcs_upload",
                                 IF uploaded_images # <<>> THEN "success" ELSE "failed")]
                   /\ product_info' = [product_info EXCEPT ![i].images = uploaded_images]
                   /\ pc' = [pc EXCEPT ![i] = "embedding"]
                   /\ UNCHANGED <<semaphore, processed_images, embeddings>>
    /\ UNCHANGED <<crawl, extract, studyvars, mode, urls, max_workers, image_service_called, embedded_image_path, firestore,
                   writes, bpc, batch_result>>

(* ---- stage 5: EmbeddingGenerator.generate_embeddings ---- *)
IsProcessed(img) == img.processed

IsMain(img) == img.type = "main"

(* Mutant: the first image is taken whether or not it was processed. *)
_find_main_image_Any(images) == IF images = <<>> THEN 0 ELSE 1

(* Mutant: the first processed image is taken whatever its role. *)
_find_main_image_FirstProcessed(images) ==
    LET processed_only == SelectSeq(images, IsProcessed)
    IN  IF processed_only = <<>> THEN 0 ELSE processed_only[1].local_path

(* embedding.py 208-224: the local path of the image to embed, 0 for None. *)
_find_main_image(images) ==
    LET processed_only == SelectSeq(images, IsProcessed)
        main_images == SelectSeq(processed_only, IsMain)
    IN  IF images = <<>> THEN 0
        ELSE IF processed_only = <<>> THEN 0
        ELSE IF main_images # <<>> THEN main_images[1].local_path
        ELSE processed_only[1].local_path

(* What an embedding service may answer: 0 stands for a failed call (the
   generator then returns []), otherwise the length of the returned vector,
   which need not be the requested one. *)
TextAnswers == {0, TEXT_EMBEDDING_DIMENSION, TEXT_EMBEDDING_DIMENSION \div 2}

ImageAnswers == {0, IMAGE_EMBEDDING_DIMENSION, IMAGE_EMBEDDING_DIMENSION \div 2}

(* embedding.py 226-302.  Vectors are modelled by their lengths. *)
generate_embeddings(info, images, text_answer, image_answer, raises) ==
    LET text_content == info.text
        main_image_path == _find_main_image(images)
        called == text_content \/ main_image_path # 0
    IN  IF raises /\ called
        THEN [status |-> "failed", embeddings |-> NoEmbeddings,
              image_called |-> main_image_path # 0,
              main_image_path |-> main_image_path]
        ELSE [status |-> "success",
              embeddings |->
                  [text_embedding |-> IF text_content THEN text_answer ELSE 0,
                   image_embedding |-> IF main_image_path # 0 THEN image_answer ELSE 0],
              image_called |-> main_image_path # 0,
              main_image_path |-> main_image_path]

(* main.py 136-154. *)
Embedding(i) ==
    /\ pc[i] = "embedding"
    /\ \E text_answer \in TextAnswers, image_answer \in ImageAnswers, raises \in BOOLEAN :
          LET embedding_result ==
                  generate_embeddings(product_info[i], processed_images[i],
                                      text_answer, image_answer, raises)
          IN  /\ result' = [result EXCEPT ![i] =
                               AddStep(@, "embedding", embedding_result.status)]
              /\ embeddings' = [embeddings EXCEPT ![i] =
                    IF embedding_result.status # "success" THEN NoEmbeddings
                    ELSE embedding_result.embeddings]
              /\ image_service_called' = [image_service_called EXCEPT ![i] =
                    embedding_result.image_called]
              /\ embedded_image_path' = [embedded_image_path EXCEPT ![i] =
                    embedding_result.main_image_path]
    /\ pc' = [pc EXCEPT ![i] = "persisting"]
    /\ UNCHANGED <<crawl, extract, studyvars, mode, urls, max_workers, semaphore, product_info,
                   processed_images, firestore, writes, bpc, batch_result>>

(* ---- stage 6: CloudStorage.save_to_firestore ---- *)
RECURSIVE FirstUploaded(_, _)
(* storage.py 59-70: the public URL of the first uploaded image, 0 for "". *)
FirstUploaded(images, k) ==
    IF k > Len(images) THEN 0
    ELSE IF images[k].gcs_uploaded THEN images[k].public_url
    ELSE FirstUploaded(images, k + 1)

(* Mutant: the first image of the list is the primary image whether or not
   it was uploaded. *)
_prepare_firestore_data_FirstImage(info, emb) ==
    [exists |-> TRUE, text_content |-> info.text,
     image_path |-> IF info.images = <<>> THEN 0
                    ELSE IF info.images[1].gcs_uploaded THEN info.images[1].public_url
                    ELSE info.images[1].local_path,
     text_embedding |-> emb.text_embedding,
     image_embedding |-> emb.image_embedding]

(* storage.py 50-94. *)
_prepare_firestore_data(info, emb) ==
    [exists |-> TRUE, text_content |-> info.text,
     image_path |-> FirstUploaded(info.images, 1),
     text_embedding |-> emb.text_embedding,
     image_embedding |-> emb.image_embedding]

(* Mutant: the result of save_to_firestore is not looked at. *)
Persisting_Unchecked(i) ==
    /\ pc[i] = "persisting"
    /\ \E written \in BOOLEAN :
          LET r == AddStep(result[i], "firestore_save",
                           IF written THEN "success" ELSE "failed")
          IN  /\ firestore' = [firestore EXCEPT ![i] =
                     IF written THEN _prepare_firestore_data(product_info[i], embeddings[i])
                     ELSE @]
              /\ writes' = [writes EXCEPT ![i] = IF written THEN @ + 1 ELSE @]
              /\ Return(i, [r EXCEPT
                     !.status = "completed",
                     !.images = product_info[i].images,
                     !.embeddings_generated =
                         [text |-> embeddings[i].text_embedding > 0,
                          image |-> embeddings[i].image_embedding > 0]])
    /\ UNCHANGED <<crawl, extract, studyvars, mode, urls, max_workers, image_service_called, embedded_image_path, bpc, batch_result>>

(* Mutant: a write that is reported as failed has left a document. *)
Persisting_PartialWrite(i) ==
    /\ pc[i] = "persisting"
    /\ \E written \in BOOLEAN :
          LET r == AddStep(result[i], "firestore_save",
                           IF written THEN "success" ELSE "failed")
          IN  /\ firestore' = [firestore EXCEPT ![i] =
                     _prepare_firestore_data(product_info[i], embeddings[i])]
              /\ writes' = [writes EXCEPT ![i] = @ + 1]
              /\ IF ~written
                 THEN Return(i, CriticalFailure(r, "firestore_save", "Firestore save failed"))
                 ELSE Return(i, [r EXCEPT
                         !.status = "completed",
                         !.images = product_info[i].images,
                         !.embeddings_generated =
                             [text |-> embeddings[i].text_embedding > 0,
                              image |-> embeddings[i].image_embedding > 0]])
    /\ UNCHANGED <<crawl, extract, studyvars, mode, urls, max_workers, image_service_called,
                   embedded_image_path, bpc, batch_result>>

(* main.py 156-198 with storage.py 258-309.  written: doc_ref.set succeeds;
   otherwise save_to_firestore returns firestore_saved False. *)
Persisting(i) ==
    /\ pc[i] = "persisting"
    /\ \E written \in BOOLEAN :
          LET firestore_saved == written
              r == AddStep(result[i], "firestore_save",
                           IF firestore_saved THEN "success" ELSE "failed")
          IN  IF ~firestore_saved
              THEN /\ Return(i, CriticalFailure(r, "firestore_save", "Firestore save failed"))
                   /\ UNCHANGED <<firestore, writes>>
              ELSE /\ firestore' = [firestore EXCEPT ![i] =
                         _prepare_firestore_data(product_info[i], embeddings[i])]
                   /\ writes' = [writes EXCEPT ![i] = @ + 1]
                   /\ Return(i, [r EXCEPT
                         !.status = "completed",
                         !.images = product_info[i].images,
                         !.embeddings_generated =
                             [text |-> embeddings[i].text_embedding > 0,
                              image |-> embeddings[i].image_embedding > 0]])
    /\ UNCHANGED <<crawl, extract, studyvars, mode, urls, max_workers, image_service_called, embedded_image_path, bpc, batch_result>>

(* ---- process_batch_urls after the gather ---- *)
IsException(r) == r.kind = "exception"

(* Mutant: a gathered exception is appended without a reason. *)
ProcessedResult_NoReason(r, k) ==
    IF IsException(r)
    THEN [r EXCEPT !.kind = "dict", !.url = k, !.status = "failed"]
    ELSE [r EXCEPT !.error = NoError]

(* main.py 253-270: the entry of processed_results for the k-th gathered
   result; an exception becomes a failed entry for urls[k] with its text. *)
ProcessedResult(r, k) ==
    IF IsException(r)
    THEN [r EXCEPT !.kind = "dict", !.url = k, !.status = "failed"]
    ELSE r

(* Mutant: every gathered result that is not an exception is counted. *)
CountCompleted_All(results, k) ==
    Cardinality({j \in 1..k : ~IsException(results[j])})

RECURSIVE CountCompleted(_, _)
(* main.py 251-270: success_count after the first k gathered results. *)
CountCompleted(results, k) ==
    IF k = 0 THEN 0
    ELSE CountCompleted(results, k - 1)
         + (IF ~IsException(results[k]) /\ results[k].status = "completed"
            THEN 1 ELSE 0)

(* main.py 274-283.  success_rate is kept as the fraction <<num, den>>. *)
BatchResult(results) ==
    LET success_count == CountCompleted(results, Len(results))
    IN  [returned |-> TRUE,
         total_urls |-> Len(urls),
         success_count |-> success_count,
         failure_count |-> Len(urls) - success_count,
         success_rate |-> IF Len(urls) > 0 THEN <<success_count, Len(urls)>>
                          ELSE <<0, 1>>,
         results |-> [k \in 1..Len(results) |-> ProcessedResult(results[k], k)]]

(* Mutant: the gather returns with the first finished task. *)
GatherDone_First == Tasks = {} \/ \E i \in Tasks : pc[i] = "done"

(* asyncio.gather (main.py 247): every awaitable has finished. *)
GatherDone == \A i \in Tasks : pc[i] = "done"

(* What asyncio.gather(return_exceptions=True) holds for a cancelled task:
   an asyncio.CancelledError, which is a BaseException and not an Exception. *)
CancelledError == [NoResult EXCEPT !.kind = "cancelled"]

(* main.py 200 and 239-243: a task is cancelled while it awaits a stage
   call.  CancelledError is thrown into the await; except Exception does
   not catch it, the async with blocks run their exits (the batch semaphore
   is released) and the task ends cancelled. *)
Cancel(i) ==
    /\ mode = "batch"
    /\ pc[i] \in InFlight \ {"sleeping"}
    /\ Return(i, CancelledError)
    /\ UNCHANGED <<crawl, extract, studyvars, mode, urls, max_workers, image_service_called, embedded_image_path,
                   firestore, writes, bpc, batch_result>>

(* main.py 247-297.  Line 255 tests isinstance(result, Exception); a gathered
   CancelledError fails the test and reaches result.get (line 269), which
   raises AttributeError out of process_batch_urls. *)
Aggregate ==
    /\ bpc = "gather"
    /\ GatherDone
    /\ IF \E i \in Tasks : result[i] = CancelledError
       THEN /\ bpc' = "raised"
            /\ UNCHANGED batch_result
       ELSE /\ batch_result' = BatchResult([i \in Tasks |-> result[i]])
            /\ bpc' = "returned"
    /\ UNCHANGED <<crawl, extract, studyvars, mode, urls, max_workers, semaphore, pc, result, product_info,
                   processed_images, embeddings, image_service_called, embedded_image_path,
                   firestore, writes>>

Next ==
    \/ \E i \in Tasks : Acquire(i)
    \/ \E i \in Tasks : StartTask(i)
    \/ \E i \in Tasks : Crawling(i)
    \/ \E i \in Tasks : Extracting(i)
    \/ \E i \in Tasks : ImageProcessing(i)
    \/ \E i \in Tasks : Uploading(i)
    \/ \E i \in Tasks : Embedding(i)
    \/ \E i \in Tasks : Persisting(i)
    \/ Aggregate

Spec == Init /\ [][Next]_vars

(* asyncio runs every ready coroutine, asyncio.Semaphore wakes its waiters,
   and every awaited external call is taken to return: each step of each
   task, and the code after the gather, is taken once it stays enabled. *)
TaskStep(i) ==
    /\ i \in Tasks
    /\ \/ Acquire(i) \/ StartTask(i) \/ Crawling(i) \/ Extracting(i)
       \/ ImageProcessing(i) \/ Uploading(i) \/ Embedding(i) \/ Persisting(i)

(* The batch with tasks that may be cancelled from outside while a stage
   call is outstanding. *)
NextCancel ==
    \/ Next
    \/ \E i \in Tasks : Cancel(i)

CancelSpec == Init /\ [][NextCancel]_vars

(* ---- the fetch limiter across the tasks of a batch ---- *)
(* main.py 74 with crawler.py 319-325: between StartTask and the return of
   crawl_url a task with a valid URL is inside async with self._semaphore
   of its own crawler, with a page fetch outstanding. *)
FetchingTasks == {i \in Tasks : pc[i] = "crawling" /\ urls[i].valid}

(* crawler.py 26 and 319: the value of the semaphore of task i's crawler.
   main.py 74 builds one WebCrawler, and so one semaphore, per task. *)
CrawlerSemaphore(i) == MAX_WORKERS - (IF i \in FetchingTasks THEN 1 ELSE 0)

(* main.py 326-327 and 237: a batch started with --workers above
   config.MAX_WORKERS, with one valid URL more than MAX_WORKERS. *)
InitFetchLimit ==
    /\ mode = "batch"
    /\ urls = [i \in 1..(MAX_WORKERS + 1) |->
                  [valid |-> TRUE, text |-> TRUE, images |-> <<>>]]
    /\ max_workers = MAX_WORKERS + 1
    /\ semaphore = max_workers
    /\ pc = [i \in Tasks |-> "created"]
    /\ result = [i \in Tasks |-> NoResult]
    /\ bpc = "gather"
    /\ InitLocals
    /\ InitIdle

(* The tasks up to their outstanding page fetch. *)
NextFetchLimit ==
    \/ \E i \in Tasks : Acquire(i)
    \/ \E i \in Tasks : StartTask(i)

FetchLimitSpec == InitFetchLimit /\ [][NextFetchLimit]_vars

(* ---- one task followed call by call through crawl_url ---- *)
(* crawler.py 23-41: a crawler on which crawl_url is about to be called;
   firecrawl_app tells whether it has a Firecrawl client. *)
NewCrawler(firecrawl_app) ==
    [NoCrawl EXCEPT !.pc = "start", !.firecrawl_app = firecrawl_app]

InitDetail ==
    /\ InitSingle
    /\ InitLocals
    /\ crawl \in {NewCrawler(b) : b \in BOOLEAN}
    /\ extract = NoExtract
    /\ InitStudyIdle

(* main.py 76-88: the orchestrator's code once crawl_url has returned
   crawl_result, c being the crawler at that point. *)
CrawlReturned(i, c, crawl_result) ==
    /\ crawl' = [c EXCEPT !.pc = "returned", !.result = crawl_result]
    /\ LET r == AddStep(result[i], "crawling", crawl_result.status)
       IN  IF StageFailed(crawl_result)
           THEN /\ Return(i, CriticalFailure(r, "crawling", crawl_result.error))
                /\ UNCHANGED <<image_service_called, embedded_image_path, firestore, writes>>
           ELSE /\ pc' = [pc EXCEPT ![i] = "extracting"]
                /\ result' = [result EXCEPT ![i] = r]
                /\ UNCHANGED <<semaphore, product_info, processed_images,
                               embeddings, image_service_called, embedded_image_path,
                               firestore, writes>>
    /\ UNCHANGED <<extract, studyvars, mode, urls, max_workers, bpc, batch_result>>

(* crawler.py 349-397: crawl_url once the fetches are over, html_content
   telling whether one of them gave content and saved whether _save_html
   wrote the file (it re-raises otherwise, crawler.py 303-309). *)
crawl_url_end(html_content, saved) ==
    IF ~html_content
    THEN [status |-> "failed", html_content |-> FALSE,
          error |-> "Failed to fetch HTML content"]
    ELSE IF ~saved
    THEN [status |-> "failed", html_content |-> FALSE,
          error |-> "Failed to save HTML"]
    ELSE [status |-> "success", html_content |-> TRUE, error |-> None]

(* crawler.py 319 and 377-397: crawl_url leaves async with self._semaphore
   and returns. *)
LeaveCrawl(i, c, html_content, saved) ==
    CrawlReturned(i,
                  [c EXCEPT !.semaphore = @ + 1, !.html_content = html_content],
                  crawl_url_end(html_content, saved))

(* crawler.py 311-332: crawl_url up to its first await. *)
CrawlEnter(i) ==
    /\ pc[i] = "crawling"
    /\ crawl.pc = "start"
    /\ IF ~_validate_url(urls[i])
       THEN /\ crawl' = [crawl EXCEPT !.pc = "raised",
                                      !.result = [status |-> "raised",
                                                  html_content |-> FALSE,
                                                  error |-> "Invalid URL format"]]
            /\ Return(i, ExceptionResult(result[i], "Invalid URL format"))
            /\ UNCHANGED <<image_service_called, embedded_image_path, firestore, writes>>
       ELSE /\ crawl.semaphore > 0
            /\ crawl' = [crawl EXCEPT !.semaphore = @ - 1,
                                      !.pc = IF crawl.firecrawl_app
                                             THEN "firecrawl" ELSE "get"]
            /\ UNCHANGED <<semaphore, pc, result, product_info, processed_images,
                           embeddings, image_service_called, embedded_image_path, firestore, writes>>
    /\ UNCHANGED <<extract, studyvars, mode, urls, max_workers, bpc, batch_result>>

(* crawler.py 332-347 with 166-281: _fetch_with_firecrawl returns, with
   content or with None. *)
FirecrawlReturns(i) ==
    /\ pc[i] = "crawling"
    /\ crawl.pc = "firecrawl"
    /\ \E ok \in BOOLEAN, saved \in BOOLEAN :
          LET c == [crawl EXCEPT !.firecrawl_calls = @ + 1,
                                 !.firecrawl_content = ok]
          IN  IF ok
              THEN LeaveCrawl(i, c, TRUE, saved)
              ELSE /\ crawl' = [c EXCEPT !.pc = "get"]
                   /\ UNCHANGED <<extract, studyvars, mode, urls, max_workers, semaphore, pc,
                                  result, product_info, processed_images,
                                  embeddings, image_service_called, embedded_image_path, firestore,
                                  writes, bpc, batch_result>>

(* Mutant: the loop makes one attempt more. *)
RetryLeft_OneMore(attempt) == attempt + 1 < MAX_RETRIES + 1

(* crawler.py 100: for attempt in range(config.MAX_RETRIES) has a value
   after attempt. *)
RetryLeft(attempt) == attempt + 1 < MAX_RETRIES

(* Mutant: every wait is the base delay. *)
wait_time_Constant(attempt) == REQUEST_DELAY

(* crawler.py 155-156: the wait before the retry that follows attempt. *)
wait_time(attempt) == REQUEST_DELAY * (RETRY_BACKOFF_FACTOR ^ attempt)

(* crawler.py 100-164: one GET of _fetch_with_retry gets its outcome. *)
GetReturns(i) ==
    /\ pc[i] = "crawling"
    /\ crawl.pc = "get"
    /\ \E outcome \in HttpOutcomes, saved \in BOOLEAN :
          LET attempt == Len(crawl.requests)
              c == [crawl EXCEPT !.requests = Append(@, outcome)]
              retry(next) ==
                  /\ crawl' = next
                  /\ UNCHANGED <<extract, studyvars, mode, urls, max_workers, semaphore, pc,
                                 result, product_info, processed_images,
                                 embeddings, image_service_called, embedded_image_path, firestore,
                                 writes, bpc, batch_result>>
          IN  IF outcome = "200"
              THEN LeaveCrawl(i, c, TRUE, saved)
              ELSE IF attempt < MAX_RETRIES - 1
              THEN retry([c EXCEPT !.pc = "wait",
                                   !.waits = Append(@, wait_time(attempt))])
              ELSE IF RetryLeft(attempt)
              THEN retry(c)
              ELSE LeaveCrawl(i, c, FALSE, saved)

(* crawler.py 157: the sleep before the next attempt is over. *)
WaitElapsed(i) ==
    /\ pc[i] = "crawling"
    /\ crawl.pc = "wait"
    /\ crawl' = [crawl EXCEPT !.pc = "get"]
    /\ UNCHANGED <<extract, studyvars, mode, urls, max_workers, semaphore, pc, result,
                   product_info, processed_images, embeddings,
                   image_service_called, embedded_image_path, firestore, writes, bpc, batch_result>>

(* ---- the model's answer in extract_product_info ---- *)
(* response.text of the generative model: what it opens with, the kind of
   its body and whether it closes with a code fence (three backquotes).  ModelError stands for
   generate_content raising. *)
ModelError == [open |-> "none", body |-> "error", close |-> FALSE]

AiResponses ==
    {ModelError} \cup
    [open : {"none", "fence_json", "fence"}, body : {"object", "array", "text"},
     close : BOOLEAN]

(* extractor.py 438-443: a leading fence tagged json and a trailing fence
   are cut off; an untagged leading fence stays. *)
CleanResponse(response) ==
    [response EXCEPT !.open = IF @ = "fence_json" THEN "none" ELSE @,
                     !.close = FALSE]

(* json.loads (extractor.py 446): the kind of the value, or the error. *)
json_loads(text) ==
    IF text.open = "none" /\ ~text.close /\ text.body \in {"object", "array"}
    THEN text.body
    ELSE "JSONDecodeError"

(* extractor.py 415-471: TRUE for the extracted dict, FALSE for {}.  A value
   that is no dict fails at extracted_data.keys() (line 451) and ends in the
   generic handler like a model error. *)
_extract_with_ai(response) ==
    IF response.body = "error" THEN FALSE
    ELSE json_loads(CleanResponse(response)) = "object"

(* main.py 90-104 with extractor.py 500-590, the model's answer recorded. *)
ExtractDetailed(i) ==
    /\ pc[i] = "extracting"
    /\ crawl.pc = "returned"
    /\ \E response \in AiResponses, images_ok \in BOOLEAN, json_saved \in BOOLEAN :
          LET ai_data == _extract_with_ai(response)
              extraction_result ==
                  extract_product_info(urls[i], ai_data, images_ok, json_saved)
              r == AddStep(result[i], "extraction", extraction_result.status)
          IN  /\ extract' = [called |-> TRUE, response |-> response,
                             ai_data |-> ai_data]
              /\ IF StageFailed(extraction_result)
                 THEN Return(i, CriticalFailure(r, "extraction",
                                                extraction_result.error))
                 ELSE /\ pc' = [pc EXCEPT ![i] = "image_processing"]
                      /\ result' = [result EXCEPT ![i] = r]
                      /\ product_info' = [product_info EXCEPT
                                            ![i] = extraction_result.product_info]
                      /\ UNCHANGED <<semaphore, processed_images, embeddings>>
    /\ UNCHANGED <<crawl, studyvars, mode, urls, max_workers, image_service_called, embedded_image_path,
                   firestore, writes, bpc, batch_result>>

NextDetail ==
    \/ \E i \in Tasks : CrawlEnter(i)
    \/ \E i \in Tasks : FirecrawlReturns(i)
    \/ \E i \in Tasks : GetReturns(i)
    \/ \E i \in Tasks : WaitElapsed(i)
    \/ \E i \in Tasks : ExtractDetailed(i)

DetailSpec == InitDetail /\ [][NextDetail]_vars

(* ---- image discovery: ProductExtractor._extract_images_from_html ---- *)
(* A URL as a page writes it: the image it names, and whether it is written
   in absolute form or relative to the page. *)
UrlForms == {"absolute", "relative"}

ImageUrl(image, form) == [image |-> image, form |-> form]

(* extractor.py 146-149, 179-184, 268-273: the URL made absolute. *)
urljoin(url) == [url EXCEPT !.form = "absolute"]

(* extractor.py 151-157 and alike: role and alt text tell the source. *)
ProductImage(url, type, alt_text) ==
    [url |-> url, type |-> type, alt_text |-> alt_text]

(* url in [img.url for img in images] (extractor.py 177, 224, 247, 276). *)
HasUrl(images, url) == \E n \in 1..Len(images) : images[n].url = url

(* Images are numbered as they are first seen. *)
KnownImages(images) == {images[n].url.image : n \in 1..Len(images)}

(* The images the next item of a page may name: a new one, or once more
   the image of the first entry of the list. *)
NextImages(images) ==
    {Cardinality(KnownImages(images)) + 1} \cup
    (IF images = <<>> THEN {} ELSE {images[1].url.image})

NextUrls(images) ==
    {ImageUrl(m, f) : m \in NextImages(images), f \in UrlForms}

pipeidle == <<pipevars, crawl, extract, imaging, textprep, store, fusion, scope>>

(* No task runs: only the function under study is followed. *)
InitNoTask ==
    /\ mode = "single"
    /\ urls = <<>>
    /\ max_workers = 1
    /\ semaphore = 0
    /\ pc = <<>>
    /\ result = <<>>
    /\ bpc = "single"
    /\ InitLocals
    /\ crawl = NoCrawl
    /\ extract = NoExtract

InitDiscovery ==
    /\ InitNoTask
    /\ discovery = [NoDiscovery EXCEPT !.pc = "og_traditional"]
    /\ imaging = NoImaging
    /\ textprep = NoTextprep
    /\ store = NoStore
    /\ fusion = NoFusion
    /\ scope = NoScope

(* extractor.py 133-164: the og:image of the page fetched once more. *)
OgTraditional ==
    /\ discovery.pc = "og_traditional"
    /\ \E found \in BOOLEAN, url \in NextUrls(discovery.images) :
          discovery' = [discovery EXCEPT
              !.pc = "og:image",
              !.images = IF found
                         THEN Append(@, ProductImage(urljoin(url), "main",
                                                     "og_traditional"))
                         ELSE @]
    /\ UNCHANGED pipeidle

(* extractor.py 166-194: the og:image, then the twitter:image, of the
   crawled HTML; the test of line 177 is made on the URL as written. *)
MetaTag ==
    /\ discovery.pc \in {"og:image", "twitter:image"}
    /\ \E found \in BOOLEAN, src \in NextUrls(discovery.images) :
          discovery' = [discovery EXCEPT
              !.pc = IF discovery.pc = "og:image" THEN "twitter:image"
                     ELSE "metadata",
              !.images = IF found /\ ~HasUrl(discovery.images, src)
                         THEN Append(@, ProductImage(urljoin(src), "main",
                                                     discovery.pc))
                         ELSE @]
    /\ UNCHANGED pipeidle

(* extractor.py 196-234: one entry of the metaData imageList, of which the
   first METADATA_LIMIT are read; the URL is built in absolute form. *)
Metadata ==
    /\ discovery.pc = "metadata"
    /\ \E more \in BOOLEAN, complete \in BOOLEAN,
          m \in NextImages(discovery.images) :
          LET img_url == ImageUrl(m, "absolute")
          IN  IF ~more \/ discovery.k = METADATA_LIMIT
              THEN discovery' = [discovery EXCEPT !.pc = "jsonld", !.k = 0]
              ELSE discovery' = [discovery EXCEPT
                      !.k = @ + 1,
                      !.images = IF complete /\ ~HasUrl(discovery.images, img_url)
                                 THEN Append(@, ProductImage(img_url, "main",
                                                             "metadata"))
                                 ELSE @]
    /\ UNCHANGED pipeidle

(* extractor.py 236-258: one image of a JSON-LD Product script, of which the
   first STRUCTURED_LIMIT are read; the URL is tested and stored as
   written. *)
JsonLdImage ==
    /\ discovery.pc = "jsonld"
    /\ discovery.scripts < MaxScripts
    /\ discovery.k < STRUCTURED_LIMIT
    /\ \E img_url \in NextUrls(discovery.images) :
          discovery' = [discovery EXCEPT
              !.k = @ + 1,
              !.images = IF ~HasUrl(discovery.images, img_url)
                         THEN Append(@, ProductImage(img_url, "main", "structured"))
                         ELSE @]
    /\ UNCHANGED pipeidle

(* extractor.py 237-258: the script is over, the next one begins. *)
JsonLdNextScript ==
    /\ discovery.pc = "jsonld"
    /\ discovery.scripts < MaxScripts
    /\ discovery' = [discovery EXCEPT !.scripts = @ + 1, !.k = 0]
    /\ UNCHANGED pipeidle

(* extractor.py 237, 260-261: no script is left. *)
JsonLdDone ==
    /\ discovery.pc = "jsonld"
    /\ discovery.k = 0
    /\ discovery' = [discovery EXCEPT !.pc = "img"]
    /\ UNCHANGED pipeidle

(* extractor.py 263-328: one <img> tag.  kept: the tag has a source and
   passes the size and pattern filters. *)
ImgTag ==
    /\ discovery.pc = "img"
    /\ discovery.tags < MaxImgTags
    /\ \E url \in NextUrls(discovery.images), kept \in BOOLEAN,
          img_type \in {"main", "detail", "thumbnail"} :
          LET src == urljoin(url)
              skipped == ~kept \/ HasUrl(discovery.images, src)
              images == IF skipped THEN discovery.images
                        ELSE Append(discovery.images,
                                    ProductImage(src, img_type, "img"))
          IN  discovery' = [discovery EXCEPT
                  !.tags = @ + 1,
                  !.images = images,
                  !.pc = IF ~skipped /\ Len(images) >= DISCOVERY_LIMIT
                         THEN "returned" ELSE @]
    /\ UNCHANGED pipeidle

(* extractor.py 330-335: the loop over the tags is over. *)
ImgDone ==
    /\ discovery.pc = "img"
    /\ discovery' = [discovery EXCEPT !.pc = "returned"]
    /\ UNCHANGED pipeidle

(* extractor.py 337-342: an exception anywhere ends the call with []. *)
DiscoveryRaises ==
    /\ discovery.pc \notin {"idle", "returned"}
    /\ discovery' = [discovery EXCEPT !.pc = "returned", !.images = <<>>]
    /\ UNCHANGED pipeidle

NextDiscovery ==
    \/ OgTraditional
    \/ MetaTag
    \/ Metadata
    \/ JsonLdImage
    \/ JsonLdNextScript
    \/ JsonLdDone
    \/ ImgTag
    \/ ImgDone
    \/ DiscoveryRaises

DiscoverySpec == InitDiscovery /\ [][NextDiscovery]_vars

(***************************************************************************)
(* One process_images call followed image by image: the download of each   *)
(* candidate (_download_image), the size check on the declared content     *)
(* length (_validate_image_size) and the processing of the saved file      *)
(* (_process_image_file).                                                  *)
(***************************************************************************)

(* A content-length header: absent, a string of digits, or another text. *)
NoHeader == [kind |-> "absent", value |-> 0]

ContentLength(size) == [kind |-> "digits", value |-> size]

(* Body sizes around the cap. *)
ImageSizes == {MAX_IMAGE_SIZE - 1, MAX_IMAGE_SIZE, MAX_IMAGE_SIZE + 1}

(* The content-length headers a response with a body of this size carries:
   none (chunked transfer) or the size of the body. *)
ResponseHeaders(body_size) == {NoHeader, ContentLength(body_size)}

HttpStatuses == {200, 404}

_validate_image_size(content_length) ==
    IF content_length.kind = "absent"
    THEN TRUE
    ELSE IF content_length.kind = "digits"
         THEN content_length.value <= MAX_IMAGE_SIZE
         ELSE TRUE

(* An entry of processed_images; saved is the number of bytes written to
   the local file by the download, 0 when nothing was written. *)
ImageEntry(processed, local_path, saved, error) ==
    [processed |-> processed, local_path |-> local_path, saved |-> saved,
     error |-> error]

not_imaging == <<pipevars, crawl, extract, discovery, textprep, store, fusion, scope>>

InitImaging ==
    /\ InitNoTask
    /\ discovery = NoDiscovery
    /\ \E n \in 0..MaxImages : imaging = [NoImaging EXCEPT !.pc = "next", !.n = n]
    /\ textprep = NoTextprep
    /\ store = NoStore
    /\ fusion = NoFusion
    /\ scope = NoScope

AppendEntry(entry) ==
    imaging' = [imaging EXCEPT !.pc = "next",
                               !.index = @ + 1,
                               !.processed_images = Append(@, entry),
                               !.response = NoImaging.response]

(* The loop head: the next candidate's file name is derived from its URL,
   outside the download's own try block; after the last candidate the call
   returns with status success. *)
NextImage ==
    /\ imaging.pc = "next"
    /\ IF imaging.index >= Min(imaging.n, IMAGE_LIMIT)
       THEN imaging' = [imaging EXCEPT !.pc = "returned", !.status = "success"]
       ELSE \E parses \in BOOLEAN :
               IF parses
               THEN imaging' = [imaging EXCEPT !.pc = "get"]
               ELSE imaging' = [imaging EXCEPT !.pc = "returned",
                                               !.status = "failed",
                                               !.processed_images = <<>>]
    /\ UNCHANGED not_imaging

(* session.get answers (or raises), and the status and declared length are
   checked. *)
ImageResponse ==
    /\ imaging.pc = "get"
    /\ \/ AppendEntry(ImageEntry(FALSE, 0, 0, "download error"))
       \/ \E status \in HttpStatuses, body_size \in ImageSizes :
          \E content_length \in ResponseHeaders(body_size) :
             IF status # 200
             THEN AppendEntry(ImageEntry(FALSE, 0, 0, "HTTP"))
             ELSE IF ~_validate_image_size(content_length)
                  THEN AppendEntry(ImageEntry(FALSE, 0, 0, "Image too large"))
                  ELSE imaging' = [imaging EXCEPT
                          !.pc = "reading",
                          !.response = [status |-> status,
                                        content_length |-> content_length,
                                        body_size |-> body_size]]
    /\ UNCHANGED not_imaging

(* response.read() returns the whole body, which is written to the file;
   then _process_image_file opens and re-saves the file. *)
ImageRead ==
    /\ imaging.pc = "reading"
    /\ \/ AppendEntry(ImageEntry(FALSE, 0, 0, "download error"))
       \/ \E process_ok \in BOOLEAN :
             IF process_ok
             THEN AppendEntry(ImageEntry(TRUE, imaging.index + 1,
                                         imaging.response.body_size, None))
             ELSE AppendEntry(ImageEntry(FALSE, 0, imaging.response.body_size,
                                         "process error"))
    /\ UNCHANGED not_imaging

NextImaging ==
    \/ NextImage
    \/ ImageResponse
    \/ ImageRead

ImagingSpec == InitImaging /\ [][NextImaging]_vars

(***************************************************************************)
(* One _prepare_text_content call.  A field value is None (a JSON null of  *)
(* the model's answer), the empty string, a blank string or a text; the    *)
(* price is None, the empty string the prompt asks for when a field cannot *)
(* be determined, or a number, written here as the text the f-string       *)
(* renders it to.  The returned text is the sequence of its parts, which   *)
(* the code joins with one newline.                                        *)
(***************************************************************************)
StringFields == <<"name", "description", "category", "brand", "product_code">>

StringValues == {"", " ", "x"}

NameValues == StringValues \cup {None}

(* attributes as the sequence of its values: extract_product_info always
   adds the manufacturer, origin, model and status keys. *)
AttributeValues == {<<>>, <<"", " ">>, <<"", "x">>}

PriceValues == {None, "", "100"}

ProductFields ==
    [name : NameValues, description : StringValues, category : StringValues,
     brand : StringValues, attributes : AttributeValues,
     product_code : StringValues, price : PriceValues, currency : {"KRW"}]

(* str.strip on the values above; on None it raises. *)
strip(s) == IF s = " " THEN "" ELSE s

StripRaises(info) == \E k \in 1..Len(StringFields) : info[StringFields[k]] = None

TextPart(label, values) == [label |-> label, values |-> values]

(* embedding.py 54-71 and 85-87: one stripped string field. *)
StringPart(info, key) ==
    IF strip(info[key]) # ""
    THEN <<TextPart(key, <<strip(info[key])>>)>>
    ELSE <<>>

HasText(value) == value # "" /\ strip(value) # ""

(* embedding.py 74-82. *)
AttributesPart(info) ==
    LET attr_parts == SelectSeq(info.attributes, HasText)
    IN  IF info.attributes # <<>> /\ attr_parts # <<>>
        THEN <<TextPart("attributes", attr_parts)>>
        ELSE <<>>

(* embedding.py 90-93. *)
PricePart(info) ==
    IF info.price # None
    THEN <<TextPart("price", <<info.price, info.currency>>)>>
    ELSE <<>>

(* embedding.py 48-112: the parts of the returned text; any exception gives
   the empty text. *)
_prepare_text_content(info) ==
    IF StripRaises(info)
    THEN <<>>
    ELSE StringPart(info, "name") \o StringPart(info, "description") \o
         StringPart(info, "category") \o StringPart(info, "brand") \o
         AttributesPart(info) \o StringPart(info, "product_code") \o
         PricePart(info)

(* storage.py 96-136: the parts of the text_content of the document, in the
   method CloudStorage._prepare_text_content; it has no product code part
   and puts the price before the attributes. *)
CloudStorage_prepare_text_content(info) ==
    StringPart(info, "name") \o StringPart(info, "description") \o
    StringPart(info, "category") \o StringPart(info, "brand") \o
    PricePart(info) \o AttributesPart(info)

(* storage.py 100-116: strip is called on name, description, category and
   brand without a handler; save_to_firestore's handler (301-309) turns
   the exception into a failed save. *)
StorageStripRaises(info) ==
    \E key \in {"name", "description", "category", "brand"} : info[key] = None

not_textprep == <<pipevars, crawl, extract, discovery, imaging, store, fusion, scope>>

InitTextprep ==
    /\ InitNoTask
    /\ discovery = NoDiscovery
    /\ imaging = NoImaging
    /\ \E info \in ProductFields :
          textprep = [pc |-> "start", product_info |-> info, text_parts |-> <<>>,
                      text_content |-> <<>>]
    /\ store = NoStore
    /\ fusion = NoFusion
    /\ scope = NoScope

PrepareTextContent ==
    /\ textprep.pc = "start"
    /\ textprep' = [textprep EXCEPT
          !.pc = "returned",
          !.text_parts = _prepare_text_content(textprep.product_info)]
    /\ UNCHANGED not_textprep

(* storage.py 50-80 and 265-309: the document is built from the same
   product record after the embeddings were generated, and written. *)
PrepareFirestoreData ==
    /\ textprep.pc = "returned"
    /\ textprep' = [textprep EXCEPT
          !.pc = IF StorageStripRaises(textprep.product_info)
                 THEN "save_failed" ELSE "saved",
          !.text_content = IF StorageStripRaises(textprep.product_info)
                           THEN <<>>
                           ELSE CloudStorage_prepare_text_content(textprep.product_info)]
    /\ UNCHANGED not_textprep

NextTextprep == PrepareTextContent \/ PrepareFirestoreData

TextprepSpec == InitTextprep /\ [][NextTextprep]_vars

(***************************************************************************)
(* The document collection over several ingestions: process_single_url     *)
(* assigns the product id, and save_to_firestore writes the prepared       *)
(* document under that id.  Only what reaches the document is followed.    *)
(***************************************************************************)
IngestUrls == {"url1", "url2"}

(* The ids a caller may supply; None when it supplies none. *)
SuppliedIds == {None, "PGIVEN"}

(* Values uuid.uuid4 may draw. *)
UuidValues == {"PUUID1", "PUUID2"}

Absent == "absent"

(* What of the record reaches the document besides the id: the text and an
   optional field, written only when it holds something. *)
IngestInputs == [text_content : {"t1", "t2"}, name : {"", "n"}]

(* main.py 52-53. *)
AssignProductId(product_id, uuid4) ==
    IF product_id = None THEN "P" \o uuid4 ELSE product_id

(* crawler.py 84-88: the id derived from the md5 of the URL. *)
_generate_product_id(url) == "P" \o url

(* crawler.py 316-317: the id crawl_url works under; it stays inside
   crawl_url. *)
CrawlProductId(url, product_id) ==
    IF product_id = None THEN _generate_product_id(url) ELSE product_id

(* storage.py 73-92: created_at is the time of the call. *)
FirestoreData(product_id, input, now) ==
    [product_id |-> product_id,
     text_content |-> input.text_content,
     created_at |-> now,
     name |-> IF input.name # "" THEN input.name ELSE Absent]

DocumentsOf(docs, id) == {d \in docs : d.id = id}

(* Mutant: the written fields are merged into the stored document. *)
DocSet_Merge(docs, id, data) ==
    {d \in docs : d.id # id} \cup
    (IF DocumentsOf(docs, id) = {}
     THEN {[id |-> id, data |-> data]}
     ELSE {[id |-> id,
            data |-> [data EXCEPT !.name =
                         IF @ = Absent THEN d.data.name ELSE @]] :
              d \in DocumentsOf(docs, id)})

(* storage.py 269-270: collection(...).document(product_id).set(data). *)
DocSet(docs, id, data) ==
    {d \in docs : d.id # id} \cup {[id |-> id, data |-> data]}

not_store == <<pipevars, crawl, extract, discovery, imaging, textprep, fusion, scope>>

InitStore ==
    /\ InitNoTask
    /\ discovery = NoDiscovery
    /\ imaging = NoImaging
    /\ textprep = NoTextprep
    /\ store = [NoStore EXCEPT !.pc = "ready"]
    /\ fusion = NoFusion
    /\ scope = NoScope

(* One process_single_url call as far as the document is concerned.
   written: doc_ref.set succeeds. *)
Ingest ==
    /\ store.pc = "ready"
    /\ Len(store.history) < MaxIngests
    /\ \E url \in IngestUrls, supplied \in SuppliedIds, uuid4 \in UuidValues,
          input \in IngestInputs, written \in BOOLEAN :
          LET product_id == AssignProductId(supplied, uuid4)
              now == store.now + 1
              firestore_data == FirestoreData(product_id, input, now)
              docs == IF written THEN DocSet(store.docs, product_id, firestore_data)
                      ELSE store.docs
          IN  store' = [store EXCEPT
                  !.now = now,
                  !.docs = docs,
                  !.history = Append(@,
                      [url |-> url, supplied |-> supplied,
                       product_id |-> product_id,
                       crawl_product_id |-> CrawlProductId(url, product_id),
                       input |-> input,
                       written |-> written, data |-> firestore_data,
                       stored |-> DocumentsOf(docs, product_id)])]
    /\ UNCHANGED not_store

NextStore == Ingest

StoreSpec == InitStore /\ [][NextStore]_vars

(***************************************************************************)
(* One reciprocal_rank_fusion call (embedding_firestore.py 142-156, the    *)
(* same code as embedding_vertex.py 111-125).  The input lists are the     *)
(* results of nearest-neighbour queries or of a collection stream, so a    *)
(* list names a document at most once.  A dict is the sequence of its      *)
(* items in insertion order.  Scores are exact: 1 / (k + rank + 1) is      *)
(* written in units of 1 / ScoreUnit(k), which makes every score of the    *)
(* lists below an integer.                                                 *)
(***************************************************************************)
RankedIds == {"A", "B", "C"}

KValues == {1, RRF_K}

ResultLists ==
    {l \in UNION {[1..n -> RankedIds] : n \in 0..Cardinality(RankedIds)} :
        \A a, b \in 1..Len(l) : a # b => l[a] # l[b]}

SearchResults == UNION {[1..m -> ResultLists] : m \in 0..MaxLists}

RECURSIVE ProductTo(_, _)
ProductTo(k, n) == IF n = 0 THEN 1 ELSE (k + n) * ProductTo(k, n - 1)

ScoreUnit(k) == ProductTo(k, Cardinality(RankedIds))

(* Mutant: every rank contributes what the first rank contributes. *)
Score_Unranked(k, rank) == ScoreUnit(k) \div (k + 1)

(* line 150: 1 / (k + rank + 1). *)
Score(k, rank) == ScoreUnit(k) \div (k + rank + 1)

Position(items, id) ==
    IF \E j \in 1..Len(items) : items[j].id = id
    THEN CHOOSE j \in 1..Len(items) : items[j].id = id
    ELSE 0

(* Mutant: an id met after the first one is not entered. *)
AddScore_FirstIdOnly(fused_scores, doc_id, score) ==
    IF Position(fused_scores, doc_id) # 0
    THEN [fused_scores EXCEPT ![Position(fused_scores, doc_id)].score = @ + score]
    ELSE IF fused_scores = <<>>
         THEN <<[id |-> doc_id, score |-> 0 + score]>>
         ELSE fused_scores

(* lines 147-150. *)
AddScore(fused_scores, doc_id, score) ==
    IF Position(fused_scores, doc_id) # 0
    THEN [fused_scores EXCEPT ![Position(fused_scores, doc_id)].score = @ + score]
    ELSE Append(fused_scores, [id |-> doc_id, score |-> 0 + score])

(* Mutant: an item goes before the items of equal score. *)
Insert_BeforeEqual(items, item) ==
    LET n == Cardinality({j \in 1..Len(items) : items[j].score > item.score})
    IN  SubSeq(items, 1, n) \o <<item>> \o SubSeq(items, n + 1, Len(items))

(* Mutant: ascending order. *)
Insert_Ascending(items, item) ==
    LET n == Cardinality({j \in 1..Len(items) : items[j].score <= item.score})
    IN  SubSeq(items, 1, n) \o <<item>> \o SubSeq(items, n + 1, Len(items))

(* One step of the stable sort by descending score: the item goes after
   the items whose score is not smaller. *)
Insert(items, item) ==
    LET n == Cardinality({j \in 1..Len(items) : items[j].score >= item.score})
    IN  SubSeq(items, 1, n) \o <<item>> \o SubSeq(items, n + 1, Len(items))

RECURSIVE sorted(_)
(* line 154: sorted(fused_scores.items(), key=score, reverse=True). *)
sorted(items) ==
    IF items = <<>> THEN <<>>
    ELSE Insert(sorted(SubSeq(items, 1, Len(items) - 1)), items[Len(items)])

not_fusion == <<pipevars, crawl, extract, discovery, imaging, textprep, store, scope>>

InitFusion ==
    /\ InitNoTask
    /\ discovery = NoDiscovery
    /\ imaging = NoImaging
    /\ textprep = NoTextprep
    /\ store = NoStore
    /\ \E search_results \in SearchResults, k \in KValues :
          fusion = [NoFusion EXCEPT !.pc = "fusing",
                                    !.search_results = search_results,
                                    !.k = k]
    /\ scope = NoScope

(* lines 146-150: one entry of the current list. *)
FuseEntry ==
    /\ fusion.pc = "fusing"
    /\ fusion.list <= Len(fusion.search_results)
    /\ fusion.rank < Len(fusion.search_results[fusion.list])
    /\ LET doc_id == fusion.search_results[fusion.list][fusion.rank + 1]
       IN  fusion' = [fusion EXCEPT
               !.fused_scores = AddScore(@, doc_id, Score(fusion.k, fusion.rank)),
               !.rank = @ + 1]
    /\ UNCHANGED not_fusion

(* line 145: the current list is exhausted. *)
NextList ==
    /\ fusion.pc = "fusing"
    /\ fusion.list <= Len(fusion.search_results)
    /\ fusion.rank >= Len(fusion.search_results[fusion.list])
    /\ fusion' = [fusion EXCEPT !.list = @ + 1, !.rank = 0]
    /\ UNCHANGED not_fusion

(* lines 152-156. *)
Rerank ==
    /\ fusion.pc = "fusing"
    /\ fusion.list > Len(fusion.search_results)
    /\ fusion' = [fusion EXCEPT !.pc = "returned",
                                !.reranked_results = sorted(fusion.fused_scores)]
    /\ UNCHANGED not_fusion

NextFusion ==
    \/ FuseEntry
    \/ NextList
    \/ Rerank

FusionSpec == InitFusion /\ [][NextFusion]_vars

(***************************************************************************)
(* The sessions and semaphore permits of process_single_url, followed per  *)
(* task through the two async with blocks (main.py 74-88 and 107-124).     *)
(* Every task builds its own WebCrawler and ImageProcessor, each with its  *)
(* own session and its own semaphore of MAX_WORKERS permits.  pending is   *)
(* what leaves a block: nothing, a return, an exception or a cancellation. *)
(***************************************************************************)
NewScope ==
    [pc |-> "start", crawler_session |-> "none", crawler_permits |-> 0,
     image_session |-> "none", image_permits |-> 0, pending |-> "none",
     exit |-> "none"]

(* crawler.py 52-74, image_processor.py 33-53. *)
_create_session(session) == "open"

(* Mutant: the session is left open. *)
_close_session_Leak(session) == session

(* crawler.py 76-82, image_processor.py 55-61. *)
_close_session(session) == IF session = "open" THEN "closed" ELSE session

Scoped == 1..Len(scope)

not_scope == <<pipevars, crawl, extract, discovery, imaging, textprep, store, fusion>>

InitScope ==
    /\ InitNoTask
    /\ discovery = NoDiscovery
    /\ imaging = NoImaging
    /\ textprep = NoTextprep
    /\ store = NoStore
    /\ fusion = NoFusion
    /\ \E n \in 1..MaxScoped : scope = [t \in 1..n |-> NewScope]

(* What follows a block once its __aexit__ has run. *)
AfterExit(s, next) ==
    IF s.pending = "none" THEN [s EXCEPT !.pc = next]
    ELSE IF s.pending = "cancelled"
    THEN [s EXCEPT !.pc = "raised", !.exit = "cancelled", !.pending = "none"]
    ELSE [s EXCEPT !.pc = "returned", !.pending = "none",
                   !.exit = IF s.pending = "return" THEN "crawl_failed"
                            ELSE "exception"]

(* main.py 74, crawler.py 43-46: async with WebCrawler() is entered. *)
CrawlerEnter(t) ==
    /\ scope[t].pc = "start"
    /\ scope' = [scope EXCEPT ![t] =
          [@ EXCEPT !.pc = "crawl_url",
                    !.crawler_session = _create_session(@)]]
    /\ UNCHANGED not_scope

(* crawler.py 311-319: an invalid URL raises inside the block; otherwise a
   permit of the crawler's semaphore is taken. *)
CrawlUrl(t) ==
    /\ scope[t].pc = "crawl_url"
    /\ \E valid \in BOOLEAN :
          scope' = [scope EXCEPT ![t] =
              IF ~valid
              THEN [@ EXCEPT !.pc = "crawler_exit", !.pending = "exception"]
              ELSE [@ EXCEPT !.pc = "crawling", !.crawler_permits = @ + 1]]
    /\ UNCHANGED not_scope

(* crawler.py 319-397, main.py 75-88: the body under the semaphore ends
   with a result or with a cancellation, and the permit is given back; a
   failed crawl returns from inside the block. *)
CrawlDone(t) ==
    /\ scope[t].pc = "crawling"
    /\ \E outcome \in {"success", "failed", "cancelled"} :
          scope' = [scope EXCEPT ![t] =
              [@ EXCEPT !.pc = "crawler_exit",
                        !.crawler_permits = @ - 1,
                        !.pending = IF outcome = "success" THEN "none"
                                    ELSE IF outcome = "failed" THEN "return"
                                    ELSE "cancelled"]]
    /\ UNCHANGED not_scope

(* crawler.py 48-50: __aexit__ of the crawler. *)
CrawlerExit(t) ==
    /\ scope[t].pc = "crawler_exit"
    /\ scope' = [scope EXCEPT ![t] =
          AfterExit([@ EXCEPT !.crawler_session = _close_session(@)],
                    "extraction")]
    /\ UNCHANGED not_scope

(* main.py 91-104. *)
ExtractionDone(t) ==
    /\ scope[t].pc = "extraction"
    /\ \E outcome \in {"success", "failed", "cancelled"} :
          scope' = [scope EXCEPT ![t] =
              IF outcome = "success" THEN [@ EXCEPT !.pc = "image_start"]
              ELSE IF outcome = "failed"
              THEN [@ EXCEPT !.pc = "returned", !.exit = "extraction_failed"]
              ELSE [@ EXCEPT !.pc = "raised", !.exit = "cancelled"]]
    /\ UNCHANGED not_scope

(* main.py 107, image_processor.py 24-27: async with ImageProcessor(). *)
ImageEnter(t) ==
    /\ scope[t].pc = "image_start"
    /\ scope' = [scope EXCEPT ![t] =
          [@ EXCEPT !.pc = "process_images",
                    !.image_session = _create_session(@)]]
    /\ UNCHANGED not_scope

(* image_processor.py 313-330: without images the call returns at once;
   otherwise a permit of the image semaphore is taken. *)
ProcessImages(t) ==
    /\ scope[t].pc = "process_images"
    /\ \E has_images \in BOOLEAN :
          scope' = [scope EXCEPT ![t] =
              IF ~has_images THEN [@ EXCEPT !.pc = "image_exit"]
              ELSE [@ EXCEPT !.pc = "image_processing", !.image_permits = @ + 1]]
    /\ UNCHANGED not_scope

(* image_processor.py 330-407: the loop ends, an exception is turned into
   a failed result, or the task is cancelled; the permit is given back. *)
ImagesDone(t) ==
    /\ scope[t].pc = "image_processing"
    /\ \E outcome \in {"success", "failed", "cancelled"} :
          scope' = [scope EXCEPT ![t] =
              [@ EXCEPT !.pc = "image_exit",
                        !.image_permits = @ - 1,
                        !.pending = IF outcome = "cancelled" THEN "cancelled"
                                    ELSE "none"]]
    /\ UNCHANGED not_scope

(* image_processor.py 29-31: __aexit__ of the image processor. *)
ImageExit(t) ==
    /\ scope[t].pc = "image_exit"
    /\ scope' = [scope EXCEPT ![t] =
          AfterExit([@ EXCEPT !.image_session = _close_session(@)], "storing")]
    /\ UNCHANGED not_scope

(* main.py 126-218: upload, embedding and write, outside both blocks. *)
StoringDone(t) ==
    /\ scope[t].pc = "storing"
    /\ \E outcome \in {"completed", "save_failed", "exception", "cancelled"} :
          scope' = [scope EXCEPT ![t] =
              [@ EXCEPT !.pc = IF outcome = "cancelled" THEN "raised" ELSE "returned",
                        !.exit = outcome]]
    /\ UNCHANGED not_scope

NextScope ==
    \E t \in Scoped :
        \/ CrawlerEnter(t)
        \/ CrawlUrl(t)
        \/ CrawlDone(t)
        \/ CrawlerExit(t)
        \/ ExtractionDone(t)
        \/ ImageEnter(t)
        \/ ProcessImages(t)
        \/ ImagesDone(t)
        \/ ImageExit(t)
        \/ StoringDone(t)

ScopeSpec == InitScope /\ [][NextScope]_vars

Fairness ==
    /\ \A i \in 1..MaxUrls : WF_vars(TaskStep(i))
    /\ WF_vars(Aggregate)

FairSpec == Init /\ [][Next]_vars /\ Fairness

(* ---- properties ---- *)
HasStep(r, name, status) ==
    \E k \in 1..Len(r.steps) : r.steps[k].name = name /\ r.steps[k].status = status

Ran(r, name) == \E k \in 1..Len(r.steps) : r.steps[k].name = name

LastStep(r) == r.steps[Len(r.steps)]

CriticalStages == {"crawling", "extraction", "firestore_save"}

NoProcessedImage(images) == \A k \in 1..Len(images) : ~images[k].processed

RunningTasks == {i \in Tasks : pc[i] \in InFlight}

(* C1: when process_single_url has returned, the status is "completed" or
   "failed"; it is "completed" only if the firestore_save step reported
   success (and the document was written), and "failed" in every other
   case. *)
C1_CompletedOnlyIfPersisted ==
    \A i \in Tasks : pc[i] = "done" =>
        /\ result[i].status \in {"completed", "failed"}
        /\ result[i].status = "completed" =>
              /\ HasStep(result[i], "firestore_save", "success")
              /\ firestore[i].exists
              /\ writes[i] = 1
        /\ ~HasStep(result[i], "firestore_save", "success") =>
              result[i].status = "failed"

C1_Witness ==
    \E i \in Tasks :
        /\ pc[i] = "done"
        /\ result[i].status = "completed"
        /\ HasStep(result[i], "firestore_save", "success")

(* C2: a failed critical stage is the last stage of its task: the task is
   done and failed, the error names that stage, nothing of a later stage is
   recorded, and unless the failed stage is the write itself no document
   was written and no image embedding was asked for; in particular after a
   fetch that found no content only the crawling step is recorded. *)
C2_CriticalFailureStops ==
    \A i \in Tasks : \A k \in 1..Len(result[i].steps) :
        LET step == result[i].steps[k]
        IN  (step.name \in CriticalStages /\ step.status = "failed") =>
              /\ k = Len(result[i].steps)
              /\ pc[i] = "done"
              /\ result[i].status = "failed"
              /\ result[i].error.stage = step.name
              /\ result[i].error.detail # None
              /\ writes[i] = 0
              /\ ~firestore[i].exists
              /\ step.name = "crawling" => (k = 1 /\ ~image_service_called[i])

C2_Witness ==
    \E i \in Tasks :
        /\ pc[i] = "done"
        /\ result[i].error = [stage |-> "crawling", detail |-> "Failed to fetch HTML content"]
        /\ HasStep(result[i], "crawling", "failed")

(* C3: a failed image_processing or embedding step does not end the task:
   the task goes on with no processed images, respectively with both
   vectors empty, the task's error never names these stages, and once the
   write succeeds the task is completed. *)
C3_NonCriticalFailureContinues ==
    \A i \in Tasks :
        /\ (result[i].steps # <<>> /\ LastStep(result[i]).status = "failed"
            /\ LastStep(result[i]).name \in {"image_processing", "embedding"}) =>
              /\ pc[i] # "done"
              /\ LastStep(result[i]).name = "image_processing" =>
                    (pc[i] = "uploading" /\ processed_images[i] = <<>>)
              /\ LastStep(result[i]).name = "embedding" =>
                    (pc[i] = "persisting" /\ embeddings[i] = NoEmbeddings)
        /\ (HasStep(result[i], "image_processing", "failed")
            \/ HasStep(result[i], "embedding", "failed")) =>
              /\ result[i].error.stage \notin {"image_processing", "embedding"}
              /\ HasStep(result[i], "firestore_save", "success") =>
                    result[i].status = "completed"
              /\ (HasStep(result[i], "embedding", "failed") /\ firestore[i].exists) =>
                    (firestore[i].text_embedding = 0 /\ firestore[i].image_embedding = 0)

C3_Witness ==
    \E i \in Tasks :
        /\ result[i].status = "completed"
        /\ HasStep(result[i], "image_processing", "failed")
        /\ HasStep(result[i], "embedding", "failed")

(* C4: once the image stage has returned, the upload stage never ends the
   task: a finished task that recorded image_processing also went through
   embedding and the write. *)
C4_UploadNeverFailsTask ==
    \A i \in Tasks :
        (pc[i] = "done" /\ Ran(result[i], "image_processing")) =>
            (Ran(result[i], "embedding") /\ Ran(result[i], "firestore_save"))

(* C5: a task whose images were all left unprocessed (or that had none) and
   whose write succeeded is completed, the image embedding service was not
   called for it, and its document's image_embedding is empty. *)
C5_NoProcessedImageStillCompletes ==
    \A i \in Tasks :
        (/\ pc[i] = "done"
         /\ HasStep(result[i], "firestore_save", "success")
         /\ NoProcessedImage(result[i].images)) =>
            /\ result[i].status = "completed"
            /\ ~image_service_called[i]
            /\ firestore[i].exists
            /\ firestore[i].image_embedding = 0
            /\ ~result[i].embeddings_generated.image

C5_Witness ==
    \E i \in Tasks :
        /\ result[i].status = "completed"
        /\ result[i].images # <<>>
        /\ NoProcessedImage(result[i].images)
        /\ firestore[i].image_embedding = 0

(* The number of stages whose result a task at position p has received. *)
StagesReturned(p, r) ==
    CASE p \in {"created", "sleeping", "crawling"} -> 0
      [] p = "extracting" -> 1
      [] p = "image_processing" -> 2
      [] p = "uploading" -> 3
      [] p = "embedding" -> 4
      [] p = "persisting" -> 5
      [] OTHER -> Len(r.steps)

(* C6: the steps recorded for a task are always the first stages of the
   order crawling, extraction, image_processing, gcs_upload, embedding,
   firestore_save, and a task that is running a stage has recorded exactly
   the stages before it. *)
C6_StagesInOrder ==
    \A i \in Tasks :
        /\ Len(result[i].steps) <= Len(StageOrder)
        /\ \A k \in 1..Len(result[i].steps) : result[i].steps[k].name = StageOrder[k]
        /\ Len(result[i].steps) = StagesReturned(pc[i], result[i])

C6_Witness ==
    \E i \in Tasks :
        /\ pc[i] = "done"
        /\ Len(result[i].steps) = Len(StageOrder)
        /\ \A k \in 1..Len(StageOrder) : result[i].steps[k].name = StageOrder[k]

(* C7: in a batch, the number of tasks between acquiring and releasing the
   batch semaphore never exceeds the worker limit, and the semaphore's
   value is the number of free permits. *)
C7_AtMostWInFlight ==
    mode = "batch" =>
        /\ Cardinality(RunningTasks) <= max_workers
        /\ semaphore = max_workers - Cardinality(RunningTasks)

C7_Witness ==
    /\ mode = "batch"
    /\ Cardinality(RunningTasks) = max_workers
    /\ \E i \in Tasks : pc[i] = "created"

(* C8: the batch report exists only when every task of the batch has
   returned with status completed or failed. *)
C8_ReportAfterAllTasks ==
    (bpc = "returned" \/ batch_result.returned) =>
        \A i \in Tasks :
            /\ pc[i] = "done"
            /\ result[i].status \in {"completed", "failed"}

C8_Witness ==
    /\ batch_result.returned
    /\ \E i, j \in Tasks :
          /\ result[i].status = "completed"
          /\ result[j].status = "failed"

(* C9: in a batch, a step of one task never changes the position or the
   result of another task, and under fair scheduling every task ends and
   the batch returns its report. *)
C9_BatchAlwaysFinishes ==
    /\ [][\A i, j \in Tasks :
             (i # j /\ pc'[i] = "done" /\ pc[i] # "done") =>
                 (pc'[j] = pc[j] /\ result'[j] = result[j])]_vars
    /\ (mode = "batch") ~> (bpc = "returned" /\ \A i \in Tasks : pc[i] = "done")

C9_Witness ==
    /\ bpc = "returned"
    /\ Len(urls) > max_workers
    /\ result[1].status = "failed"
    /\ \E j \in Tasks : j > 1 /\ result[j].status = "completed"

(* C10: in the report, total_urls is the number of input URLs,
   success_count is the number of tasks whose status is completed,
   success_count + failure_count = total_urls, there is one result per
   URL, and for an empty list the counts and the success rate are 0. *)
C10_CountsAddUp ==
    batch_result.returned =>
        /\ batch_result.total_urls = Len(urls)
        /\ batch_result.success_count =
              Cardinality({i \in Tasks : result[i].status = "completed"})
        /\ batch_result.success_count + batch_result.failure_count
              = batch_result.total_urls
        /\ batch_result.success_count >= 0
        /\ batch_result.failure_count >= 0
        /\ Len(urls) = 0 =>
              /\ batch_result.success_count = 0
              /\ batch_result.failure_count = 0
              /\ batch_result.success_rate[1] = 0
        /\ Len(urls) > 0 =>
              batch_result.success_rate = <<batch_result.success_count, Len(urls)>>

C10_Witness ==
    /\ batch_result.returned
    /\ batch_result.total_urls = Len(urls)
    /\ batch_result.success_count > 0
    /\ batch_result.failure_count > 0

(* C11: the report's results hold exactly one entry per input URL, the
   k-th entry being the result of the k-th URL, and every entry whose
   status is "failed" carries an error. *)
C11_NoTaskDropped ==
    batch_result.returned =>
        /\ Len(batch_result.results) = Len(urls)
        /\ \A k \in 1..Len(batch_result.results) :
              LET entry == batch_result.results[k]
              IN  /\ entry.url = k
                  /\ entry.status = result[k].status
                  /\ entry.status = "failed" =>
                        /\ entry.error # NoError
                        /\ entry.error.detail # None

C11_Witness ==
    /\ batch_result.returned
    /\ Len(batch_result.results) >= 2
    /\ \E k \in 1..Len(batch_result.results) :
          /\ batch_result.results[k].status = "failed"
          /\ batch_result.results[k].error.stage = "exception"
    /\ \E k \in 1..Len(batch_result.results) :
          /\ batch_result.results[k].status = "failed"
          /\ batch_result.results[k].error.stage = "crawling"

(* C12: an exception raised inside a task (the ValueError of an invalid
   URL, a raise of the upload) ends that task with a result dict of status
   "failed" carrying the exception's text; the step that does so changes no
   other task, and the report holds every task's result as the task
   returned it. *)
C12_ExceptionBecomesFailedResult ==
    /\ [](\A i \in Tasks :
            /\ (pc[i] = "done" /\ ~urls[i].valid) =>
                  /\ result[i].kind = "dict"
                  /\ result[i].status = "failed"
                  /\ result[i].error =
                        [stage |-> "exception", detail |-> "Invalid URL format"]
            /\ result[i].error.stage = "exception" =>
                  /\ pc[i] = "done"
                  /\ result[i].status = "failed"
                  /\ result[i].error.detail # None
            /\ batch_result.returned => batch_result.results[i] = result[i])
    /\ [][\A i, j \in Tasks :
             (i # j /\ result'[i].error.stage = "exception"
                    /\ result[i].error.stage # "exception") =>
                 (pc'[j] = pc[j] /\ result'[j] = result[j])]_vars

C12_Witness ==
    /\ batch_result.returned
    /\ \E i, j \in Tasks :
          /\ ~urls[i].valid
          /\ batch_result.results[i].status = "failed"
          /\ batch_result.results[i].error.stage = "exception"
          /\ batch_result.results[j].status = "completed"

(* C13: when a task is cancelled while a stage call is outstanding, the
   batch does not raise: it returns its report, the entry of the cancelled
   task is "failed" with a Cancelled error, and every sibling has reached
   its own terminal state. *)
C13_CancelledTaskRecordedFailed ==
    \A i \in Tasks : (result[i] = CancelledError /\ bpc # "gather") =>
        /\ bpc = "returned"
        /\ batch_result.returned
        /\ batch_result.results[i].status = "failed"
        /\ batch_result.results[i].error.detail = "Cancelled"
        /\ \A j \in Tasks \ {i} :
              batch_result.results[j].status \in {"completed", "failed"}

(* C14: the page fetches in flight, summed over the tasks of a batch, never
   exceed config.MAX_WORKERS, whatever worker limit the batch was started
   with, and every task sees the one limiter that counts them all. *)
C14_FetchesWithinGlobalLimit ==
    /\ Cardinality(FetchingTasks) <= MAX_WORKERS
    /\ \A i \in Tasks :
          CrawlerSemaphore(i) = MAX_WORKERS - Cardinality(FetchingTasks)

(* The outcome of the last GET made so far. *)
LastRequest == crawl.requests[Len(crawl.requests)]

(* _fetch_with_retry returned None: crawl_url is over without content. *)
GaveUp == crawl.pc = "returned" /\ ~crawl.html_content

(* C15: at most MAX_RETRIES GETs are made; every GET but the last one made
   had a timeout, a connection error or a non-200 status, and after such an
   outcome a retry follows as long as fewer than MAX_RETRIES were made; a
   200 ends the loop with the content; the fetch gives up only after
   MAX_RETRIES failed GETs, and then no further GET is made. *)
C15_AtMostMaxRetriesAttempts ==
    /\ Len(crawl.requests) <= MAX_RETRIES
    /\ \A k \in 1..(Len(crawl.requests) - 1) : crawl.requests[k] # "200"
    /\ (Len(crawl.requests) > 0 /\ LastRequest = "200") =>
          (crawl.pc = "returned" /\ crawl.html_content)
    /\ (Len(crawl.requests) \in 1..(MAX_RETRIES - 1) /\ LastRequest # "200") =>
          crawl.pc \in {"wait", "get"}
    /\ Len(crawl.requests) = MAX_RETRIES => crawl.pc = "returned"
    /\ GaveUp =>
          /\ Len(crawl.requests) = MAX_RETRIES
          /\ \A k \in 1..MAX_RETRIES : crawl.requests[k] # "200"

C15_Witness ==
    /\ GaveUp
    /\ crawl.requests = <<"timeout", "client_error", "non200">>

(* C16: when the fetch has given up, the error of the failed crawl result,
   and of the failed task, is the error of the last attempt. *)
C16_LastErrorSurfaced ==
    GaveUp =>
        /\ crawl.result.status = "failed"
        /\ crawl.result.error = LastRequest
        /\ \A i \in Tasks : result[i].error.detail = LastRequest

(* C17: a configured dynamic-rendering fetch is tried first; a GET is made
   if and only if dynamic rendering is not configured or gave no content;
   the crawl fails only when both paths gave no content. *)
C17_FirecrawlFirstThenGet ==
    /\ crawl.firecrawl_calls = 0 =>
          (~crawl.firecrawl_app \/ crawl.pc \in {"start", "firecrawl", "raised"})
    /\ Len(crawl.requests) > 0 =>
          (~crawl.firecrawl_app \/
              (crawl.firecrawl_calls = 1 /\ ~crawl.firecrawl_content))
    /\ crawl.pc = "returned" =>
          /\ crawl.firecrawl_calls = (IF crawl.firecrawl_app THEN 1 ELSE 0)
          /\ Len(crawl.requests) > 0 <=>
                (~crawl.firecrawl_app \/ ~crawl.firecrawl_content)
          /\ crawl.result.status = "failed" => ~crawl.html_content

(* C18: for a URL without scheme or host crawl_url raises the invalid-URL
   error before anything else: no dynamic-rendering call, no GET, the
   crawler's semaphore untouched; the task ends failed with that error. *)
C18_InvalidUrlRejectedBeforeFetch ==
    \A i \in Tasks : (~urls[i].valid /\ crawl.pc \notin {"idle", "start"}) =>
        /\ crawl.pc = "raised"
        /\ crawl.result.error = "Invalid URL format"
        /\ crawl.firecrawl_calls = 0
        /\ crawl.requests = <<>>
        /\ crawl.semaphore = MAX_WORKERS
        /\ pc[i] = "done"
        /\ result[i].status = "failed"
        /\ result[i].error.detail = "Invalid URL format"
        /\ result[i].steps = <<>>

C18_Witness ==
    /\ crawl.pc = "raised"
    /\ \E i \in Tasks : ~urls[i].valid /\ pc[i] = "done"

(* C19: once the HTML was retrieved, crawl_url returns status success with
   the HTML content, whether or not the HTML file could be saved. *)
C19_SaveFailureDoesNotFailFetch ==
    (crawl.pc = "returned" /\ crawl.html_content) =>
        /\ crawl.result.status = "success"
        /\ crawl.result.html_content

(* C20: when the model's answer does not parse into the structured data,
   the extraction step is recorded as failed and the task carries the
   extraction error; it is never recorded as a successful extraction. *)
C20_UnparsableAnswerFailsExtraction ==
    \A i \in Tasks :
        (extract.called /\ extract.response # ModelError /\ ~extract.ai_data) =>
            /\ HasStep(result[i], "extraction", "failed")
            /\ ~HasStep(result[i], "extraction", "success")
            /\ result[i].status = "failed"
            /\ result[i].error.stage = "extraction"

(* C21: the list image discovery returns never holds more than
   DISCOVERY_LIMIT = 10 entries, whatever the page's meta tags, metadata,
   structured data and <img> tags are. *)
C21_AtMostTenCandidates ==
    discovery.pc = "returned" => Len(discovery.images) <= DISCOVERY_LIMIT

(* C22: the list image discovery returns holds no two entries whose URLs
   resolve to the same absolute URL. *)
C22_NoDuplicateResolvedUrl ==
    discovery.pc = "returned" =>
        \A a, b \in 1..Len(discovery.images) :
            a # b => urljoin(discovery.images[a].url) # urljoin(discovery.images[b].url)

(* C23: process_images returns, for the candidate list it was given, one
   entry per candidate in candidate order, each either processed with a
   local path or not processed; a failure on one image does not take away
   the entries of the others. *)
C23_EveryImageHandledIndependently ==
    \A i \in Tasks : pc[i] = "uploading" =>
        /\ Ran(result[i], "image_processing")
        /\ Len(processed_images[i]) = Len(product_info[i].images)
        /\ \A k \in 1..Len(processed_images[i]) :
              /\ processed_images[i][k].type = product_info[i].images[k].type
              /\ processed_images[i][k].processed =>
                    processed_images[i][k].local_path # 0

(* C24: no image larger than MAX_IMAGE_SIZE bytes is written to a local
   file or marked processed, whether or not the response declared a
   content length. *)
C24_NoOversizeImageSaved ==
    \A k \in 1..Len(imaging.processed_images) :
        imaging.processed_images[k].saved <= MAX_IMAGE_SIZE

(* Positions of the processed images of a list, and of those given as main. *)
ProcessedAt(images) == {k \in 1..Len(images) : images[k].processed}

MainAt(images) == {k \in ProcessedAt(images) : images[k].type = "main"}

First(S) == CHOOSE k \in S : \A m \in S : k <= m

(* C25: the image passed to the image embedding service is the first
   processed image given as main; without one, the first processed image of
   any role; without a processed image, none.  An image that was not
   processed is never passed. *)
C25_RepresentativeImage ==
    \A i \in Tasks : pc[i] = "persisting" =>
        LET images == processed_images[i]
        IN  /\ embedded_image_path[i] =
                  IF MainAt(images) # {} THEN images[First(MainAt(images))].local_path
                  ELSE IF ProcessedAt(images) # {}
                       THEN images[First(ProcessedAt(images))].local_path
                  ELSE 0
            /\ image_service_called[i] = (ProcessedAt(images) # {})
            /\ embedded_image_path[i] # 0 =>
                  \E k \in ProcessedAt(images) :
                      images[k].local_path = embedded_image_path[i]

(* A processed image of another role precedes a processed main image, and
   the main one was passed. *)
C25_Witness ==
    \E i \in Tasks :
        /\ pc[i] = "persisting"
        /\ Ran(result[i], "embedding")
        /\ Len(processed_images[i]) = 2
        /\ processed_images[i][1].processed
        /\ processed_images[i][1].type # "main"
        /\ processed_images[i][2].processed
        /\ processed_images[i][2].type = "main"
        /\ embedded_image_path[i] = processed_images[i][2].local_path

(* The fields of the text in the order they are written. *)
FieldOrder ==
    <<"name", "description", "category", "brand", "attributes", "product_code",
      "price">>

Rank(label) == CHOOSE k \in 1..Len(FieldOrder) : FieldOrder[k] = label

(* A field that holds nothing: null, empty or blank, and for the attributes
   no value that holds something. *)
EmptyValue(value) == value \in {None, "", " "}

EmptyField(info, field) ==
    IF field = "attributes"
    THEN \A k \in 1..Len(info.attributes) : EmptyValue(info.attributes[k])
    ELSE EmptyValue(info[field])

(* C26: the prepared text holds the labelled fields in the order name,
   description, category, brand, attributes, product code, price; a field
   is present exactly when it is not empty, for every combination of empty
   and non-empty fields. *)
C26_TextPartsInOrderWithoutEmptyFields ==
    textprep.pc = "returned" =>
        /\ \A a, b \in 1..Len(textprep.text_parts) :
              a < b => Rank(textprep.text_parts[a].label) <
                       Rank(textprep.text_parts[b].label)
        /\ \A f \in 1..Len(FieldOrder) :
              (\E k \in 1..Len(textprep.text_parts) :
                    textprep.text_parts[k].label = FieldOrder[f])
              <=> ~EmptyField(textprep.product_info, FieldOrder[f])

(* C27: every persisted text_embedding has length 0 or
   TEXT_EMBEDDING_DIMENSION and every persisted image_embedding length 0 or
   IMAGE_EMBEDDING_DIMENSION, whatever the embedding services returned. *)
C27_PersistedEmbeddingLengths ==
    \A i \in Tasks : firestore[i].exists =>
        /\ firestore[i].text_embedding \in {0, TEXT_EMBEDDING_DIMENSION}
        /\ firestore[i].image_embedding \in {0, IMAGE_EMBEDDING_DIMENSION}

(* Positions of the uploaded images of a list. *)
UploadedAt(images) == {k \in 1..Len(images) : images[k].gcs_uploaded}

(* C28: the image_path of a persisted document is the public URL of the
   first image of the list that was uploaded, and it is empty (0) exactly
   when no image was uploaded; an image that was not processed or not
   uploaded is never the primary image. *)
C28_ImagePathIsFirstUploaded ==
    \A i \in Tasks : (firestore[i].exists /\ pc[i] = "done") =>
        LET images == result[i].images
        IN  /\ firestore[i].image_path =
                  IF UploadedAt(images) = {} THEN 0
                  ELSE images[First(UploadedAt(images))].public_url
            /\ (firestore[i].image_path = 0) <=> (UploadedAt(images) = {})
            /\ \A k \in UploadedAt(images) : images[k].processed

(* The first image failed, the second was uploaded and is the primary
   image of the document. *)
C28_Witness ==
    \E i \in Tasks :
        /\ firestore[i].exists
        /\ pc[i] = "done"
        /\ Len(result[i].images) = 2
        /\ ~result[i].images[1].gcs_uploaded
        /\ result[i].images[2].gcs_uploaded
        /\ firestore[i].image_path = result[i].images[2].public_url

(* Two documents are equal in every field except the timestamp. *)
SameExceptTimestamps(d, e) ==
    [d EXCEPT !.created_at = 0] = [e EXCEPT !.created_at = 0]

WrittenAt == {a \in 1..Len(store.history) : store.history[a].written}

(* C29: an id never has more than one document; a write leaves under its
   id exactly the document it wrote, whatever was stored before; two
   writes of the same id with identical input leave documents that are
   equal in every field except the timestamp. *)
C29_PersistIdempotentById ==
    /\ \A a \in WrittenAt :
          store.history[a].stored =
              {[id |-> store.history[a].product_id, data |-> store.history[a].data]}
    /\ \A a, b \in WrittenAt :
          (/\ a < b
           /\ store.history[a].product_id = store.history[b].product_id
           /\ store.history[a].input = store.history[b].input) =>
              /\ Cardinality(DocumentsOf(store.docs, store.history[b].product_id)) = 1
              /\ \A d \in store.history[a].stored, e \in store.history[b].stored :
                    SameExceptTimestamps(d.data, e.data)

(* The same id was written twice with identical input, at different
   times. *)
C29_Witness ==
    /\ \E a, b \in WrittenAt :
          /\ a < b
          /\ store.history[a].product_id = store.history[b].product_id
          /\ store.history[a].input = store.history[b].input
          /\ store.history[a].data # store.history[b].data

(* C30: two ingestions of the same URL without a supplied id are assigned
   the same product id. *)
C30_ProductIdDeterminedByUrl ==
    \A a, b \in 1..Len(store.history) :
        (/\ store.history[a].url = store.history[b].url
         /\ store.history[a].supplied = None
         /\ store.history[b].supplied = None) =>
            store.history[a].product_id = store.history[b].product_id

(* C31: a task writes its document at most once, and a task that has
   returned failed has written nothing: no document exists for it. *)
C31_AtMostOneWriteNoneWhenFailed ==
    \A i \in Tasks :
        /\ writes[i] <= 1
        /\ firestore[i].exists <=> writes[i] = 1
        /\ (pc[i] = "done" /\ result[i].kind = "dict" /\ result[i].status = "failed") =>
              /\ writes[i] = 0
              /\ ~firestore[i].exists

(* A task went as far as the write, the write failed, and the task
   returned failed. *)
C31_Witness ==
    \E i \in Tasks :
        /\ pc[i] = "done"
        /\ result[i].status = "failed"
        /\ HasStep(result[i], "firestore_save", "failed")
        /\ writes[i] = 0

(* The ids of a fused mapping in the order the mapping enumerates them. *)
Keys(items) == [j \in 1..Len(items) |-> items[j].id]

(* The ids that occur in at least one input list. *)
IdsOf(search_results) ==
    UNION {{search_results[l][r] : r \in 1..Len(search_results[l])} :
              l \in 1..Len(search_results)}

(* When an id is first met while the lists are read in turn. *)
FirstSeen(search_results, id) ==
    LET Met == {<<l, r>> \in (1..Len(search_results)) \X (1..Cardinality(RankedIds)) :
                   r <= Len(search_results[l]) /\ search_results[l][r] = id}
        Order(m) == m[1] * (Cardinality(RankedIds) + 1) + m[2]
    IN  Order(CHOOSE m \in Met : \A o \in Met : Order(m) <= Order(o))

(* C32: the fusion of a single list enumerates the ids in the order of the
   list, with strictly decreasing scores, for every list and every k. *)
C32_SingleListOrderPreserved ==
    (fusion.pc = "returned" /\ Len(fusion.search_results) = 1) =>
        /\ Keys(fusion.reranked_results) = fusion.search_results[1]
        /\ \A j \in 1..(Len(fusion.reranked_results) - 1) :
              fusion.reranked_results[j].score > fusion.reranked_results[j + 1].score

C32_Witness ==
    /\ fusion.pc = "returned"
    /\ Len(fusion.search_results) = 1
    /\ Len(fusion.search_results[1]) = 3
    /\ Len(fusion.reranked_results) = 3

(* C33: an id that is first in every input list has the greatest
   accumulated score and is the first entry of the fused output. *)
C33_FirstEverywhereRanksFirst ==
    \A id \in RankedIds :
        (/\ fusion.pc = "returned"
         /\ fusion.search_results # <<>>
         /\ \A l \in 1..Len(fusion.search_results) :
               fusion.search_results[l] # <<>> /\ fusion.search_results[l][1] = id) =>
            /\ fusion.reranked_results[1].id = id
            /\ \A j \in 2..Len(fusion.reranked_results) :
                  fusion.reranked_results[1].score > fusion.reranked_results[j].score

(* Two lists that agree on the first id and disagree on the rest. *)
C33_Witness ==
    /\ fusion.pc = "returned"
    /\ Len(fusion.search_results) = 2
    /\ Len(fusion.search_results[1]) = 3
    /\ Len(fusion.search_results[2]) = 3
    /\ fusion.search_results[1][1] = fusion.search_results[2][1]
    /\ fusion.search_results[1][2] # fusion.search_results[2][2]
    /\ fusion.reranked_results[1].id = fusion.search_results[1][1]

(* C34: the fusion of no list is the empty mapping, and the keys of a fused
   mapping are exactly the ids that occur in at least one input list, each
   once. *)
C34_KeysAreTheIdsOfTheLists ==
    fusion.pc = "returned" =>
        /\ fusion.search_results = <<>> => fusion.reranked_results = <<>>
        /\ {fusion.reranked_results[j].id : j \in 1..Len(fusion.reranked_results)} =
              IdsOf(fusion.search_results)
        /\ Len(fusion.reranked_results) = Cardinality(IdsOf(fusion.search_results))

(* An id of the fused mapping is absent from the first list. *)
C34_Witness ==
    /\ fusion.pc = "returned"
    /\ Len(fusion.search_results) = 2
    /\ fusion.search_results[1] # <<>>
    /\ \E j \in 1..Len(fusion.reranked_results) :
          \A r \in 1..Len(fusion.search_results[1]) :
              fusion.search_results[1][r] # fusion.reranked_results[j].id

(* C37: the fused output is in descending order of score, and ids of equal
   score appear in the order in which the lists, read in turn, first name
   them. *)
C37_DescendingWithTiesInArrivalOrder ==
    fusion.pc = "returned" =>
        \A a, b \in 1..Len(fusion.reranked_results) :
            a < b =>
                /\ fusion.reranked_results[a].score >= fusion.reranked_results[b].score
                /\ fusion.reranked_results[a].score = fusion.reranked_results[b].score =>
                      FirstSeen(fusion.search_results, fusion.reranked_results[a].id) <
                      FirstSeen(fusion.search_results, fusion.reranked_results[b].id)

(* The fused output holds two ids of equal score. *)
C37_Witness ==
    /\ fusion.pc = "returned"
    /\ \E a, b \in 1..Len(fusion.reranked_results) :
          /\ a < b
          /\ fusion.reranked_results[a].score = fusion.reranked_results[b].score

(* C35: for every stage recorded as failed in a returned task result,
   critical or not, the result holds the stage's name together with its
   error and the duration the stage took. *)
C35_FailedStageHasStructuredDetail ==
    \A i \in Tasks : (pc[i] = "done" /\ result[i].kind = "dict") =>
        \A k \in 1..Len(result[i].steps) :
            result[i].steps[k].status # "success" =>
                /\ \/ "error" \in DOMAIN result[i].steps[k]
                   \/ /\ result[i].error.stage = result[i].steps[k].name
                      /\ result[i].error.detail # None
                /\ result[i].steps[k].duration_ms = "reported"

RECURSIVE Power(_, _)
Power(base, n) == IF n = 0 THEN 1 ELSE base * Power(base, n - 1)

(* C36: the wait after the failed GET attempt number a (counted from 0) is
   REQUEST_DELAY * RETRY_BACKOFF_FACTOR^a, so each wait is the previous one
   times the factor; there is a wait after every failed attempt but the
   last, and none after a successful one. *)
C36_ExponentialBackoffBetweenAttempts ==
    /\ Len(crawl.waits) <= MAX_RETRIES - 1
    /\ \A j \in 1..Len(crawl.waits) :
          /\ crawl.waits[j] = REQUEST_DELAY * Power(RETRY_BACKOFF_FACTOR, j - 1)
          /\ crawl.requests[j] # "200"
    /\ \A j \in 1..(Len(crawl.waits) - 1) :
          crawl.waits[j + 1] = RETRY_BACKOFF_FACTOR * crawl.waits[j]
    /\ Len(crawl.waits) =
          Cardinality({j \in 1..Len(crawl.requests) :
                          crawl.requests[j] # "200" /\ j < MAX_RETRIES})
    /\ crawl.pc = "wait" => Len(crawl.waits) = Len(crawl.requests)

(* Every attempt failed: there was a wait after each but the last. *)
C36_Witness ==
    /\ GaveUp
    /\ Len(crawl.requests) = MAX_RETRIES
    /\ Len(crawl.waits) = MAX_RETRIES - 1
    /\ crawl.waits[2] > crawl.waits[1]

(* C38: when process_single_url has returned or raised, the sessions it
   opened are closed and the permits it took are given back, on every exit
   path; a session is open and a permit held only inside its block. *)
C38_SessionsClosedPermitsReleased ==
    \A t \in Scoped :
        /\ scope[t].pc \in {"returned", "raised"} =>
              /\ scope[t].crawler_session # "open"
              /\ scope[t].image_session # "open"
              /\ scope[t].crawler_permits = 0
              /\ scope[t].image_permits = 0
        /\ scope[t].crawler_session = "open" =>
              scope[t].pc \in {"crawl_url", "crawling", "crawler_exit"}
        /\ scope[t].image_session = "open" =>
              scope[t].pc \in {"process_images", "image_processing", "image_exit"}
        /\ scope[t].crawler_permits > 0 => scope[t].pc = "crawling"
        /\ scope[t].image_permits > 0 => scope[t].pc = "image_processing"

(* One task left by an exception raised inside the crawler's block and
   another completed normally; both had their sessions closed. *)
C38_Witness ==
    \E a, b \in Scoped :
        /\ scope[a].exit = "exception"
        /\ scope[a].crawler_session = "closed"
        /\ scope[a].image_session = "none"
        /\ scope[b].exit = "completed"
        /\ scope[b].crawler_session = "closed"
        /\ scope[b].image_session = "closed"

(* C39: the text_content of a persisted document is the text from which
   its text embedding was computed: the same fields in the same order. *)
C39_StoredTextIsEmbeddedText ==
    (textprep.pc = "saved" /\ textprep.text_parts # <<>>) =>
        textprep.text_content = textprep.text_parts

====
